---- MODULE Spec2Model ----
(***************************************************************************)
(* Network Analysis & Comparison Engine, as the repository implements it   *)
(* in its TypeScript client: link prediction (NetworkView.handlePredict-   *)
(* Links over services/api networkApi.predictLinks), snapshot comparison   *)
(* (NetworkComparison), the metrics computed when a network is loaded      *)
(* (NetworkView.fetchData, Dashboard.calculateDensity) and the graph       *)
(* construction contract of the analysis service.                          *)
(*                                                                         *)
(* Numbers that are fractions in the code are kept exact: a probability is *)
(* an integer number of hundredths, a quotient is the pair of its          *)
(* numerator and denominator.                                              *)
(***************************************************************************)
EXTENDS Integers, Sequences, FiniteSets, TLC

\* ------------------------------------------------------------------ bounds
\* Largest number of nodes of a loaded network.
MaxNodes == 3
\* Largest node id of a snapshot.
MaxSnapNodes == 3
\* The number of predictions asked for and kept: 10 in the code (the default
\* of networkApi.predictLinks' topK and the slice in handlePredictLinks).
TopK == 2

\* Most raw node records and raw edge records of one buildGraph call.
MaxRawNodes == 2
MaxRawEdges == 2

\* Raw node ids and raw edge weights handed to buildGraph.
RawIds == {1, 2}
Weights == {-1, 0, 1, 2}
\* Community tags a loaded node may carry.
GroupIds == {1, 2}
\* Node ids networkApi.predictLinks' catch handler draws from: 1..30 in the code.
SampleIds == {1, 2}
\* Values of Number(Math.random().toFixed(2)), in hundredths.
ApiProbs == {10, 80}
\* Values of Number((0.5 + Math.random() * 0.4).toFixed(2)), in hundredths.
LocalProbs == {50, 90}

\* ------------------------------------------------------------------- state
VARIABLES
    data,             \* NetworkView: the loaded network {nodes, edges}
    predictedLinks,   \* NetworkView: the predictions shown
    showPredictions,  \* NetworkView: whether the prediction panel is open
    predictionError,  \* NetworkView: the prediction error message, or "null"
    predPath,         \* which branch of handlePredictLinks produced the result
    snapshots,        \* NetworkComparison: the snapshot list
    selectedSnapshots,\* NetworkComparison: the ids of the selected snapshots
    comparisonData,   \* NetworkComparison: the comparison shown, or NoComparison
    loading,          \* NetworkComparison: a comparison is being computed
    error,            \* NetworkComparison: the error message, or "null"
    cmpPath,          \* which branch of compareSnapshots produced the result
    networkInfo,      \* NetworkView: the metrics of the loaded network, or NoMetrics
    networkSummary,   \* Dashboard: the network summary
    responseMetrics,  \* the metrics networkApi.getNetwork's catch handler answered with
    page,             \* the page mounted, and the branch its load took
    rawInput,         \* buildGraph: the raw nodes and edges it was called with
    buildResult,      \* buildGraph: what the call returned, or NotBuilt
    viewData,         \* NetworkView: the loaded network, edges as an array with weights
    filters,          \* NetworkView: the filter settings
    filteredData,     \* NetworkView: the network the filters left, or "stale" before they ran
    linked,           \* edge endpoints d3's link force replaced by the node object
    placed,           \* whether a layout wrote coordinates on the node objects
    advancedMetrics,  \* NetworkView: networkInfo.communities, or NoMetrics
    analysis,         \* analysis service: the result of the last call, or NoAnalysis
    fileInfo,         \* DataUpload: the selected file, or NoFile
    importOptions,    \* DataUpload: the import options of the form
    isLoading,        \* DataUpload: an upload is in flight
    uploadError,      \* DataUpload: error
    uploadResult,     \* DataUpload: the response of the last successful upload
    lastRequest,      \* the form data of the last POST /network/upload, or NoRequest
    run,              \* community detector: the invocation under way
    partition,        \* community detector: the Partition returned, or NoPartition
    isLoggedIn,       \* App: isLoggedIn
    isAdmin,          \* App: isAdmin
    localStorage,     \* the stored flags isLoggedIn and isAdmin, "null" when absent
    routes,           \* the paths App's last render registered
    loginError,       \* Login: error
    authRequests,     \* the login and sign-up requests in flight, oldest first
    location,         \* the router's current path
    userList,         \* which UserList component is mounted: "part_007" or "User.tsx"
    users,            \* UserList: users, by id
    usersLoading,     \* UserList: the list request is in flight
    usersError,       \* UserList: error
    deletingId,       \* UserList (part_007): deletingId, 0 for null
    deleteRequests,   \* the DELETE requests in flight, each with the users its handler closed over
    serverUsers,      \* the users the server holds
    panelFilters,     \* NetworkFilters: filters, the settings the panel displays
    layoutAlgorithm,  \* controlsState.layoutAlgorithm
    fx,               \* per node of the visualization: what set node.fx and node.fy, "null" if unset
    dragging,         \* the node of the drag gesture in progress, 0 for none
    timelineData,     \* NetworkTimeline: the data prop
    selectedIndices,  \* NetworkTimeline: the selectedIndices prop, <<>> for null (indices from 1)
    clickedPoint,     \* the point of the last click on the chart
    reportedIndex     \* the index the last click handed to onPointSelect, 0 for none

predictVars == <<predictedLinks, showPredictions, predictionError, predPath>>
compareVars == <<snapshots, selectedSnapshots, comparisonData, loading, error, cmpPath>>
metricsVars == <<networkInfo, networkSummary, responseMetrics, page>>
buildVars == <<rawInput, buildResult>>
viewVars == <<viewData, filters, filteredData, linked, placed, advancedMetrics>>
\* The state of the components the later sections add.
engineVars == <<analysis>>
uploadVars == <<fileInfo, importOptions, isLoading, uploadError, uploadResult, lastRequest>>
detectVars == <<run, partition>>
authVars == <<isLoggedIn, isAdmin, localStorage, routes, loginError, authRequests, location>>
\* The state of the components of the last sections.
usersVars ==
    <<userList, users, usersLoading, usersError, deletingId, deleteRequests, serverUsers>>
panelVars == <<panelFilters>>
layoutVars == <<layoutAlgorithm, fx, dragging>>
timelineVars == <<timelineData, selectedIndices, clickedPoint, reportedIndex>>
lateVars == <<authVars, usersVars, panelVars, layoutVars, timelineVars>>
\* Everything but lateVars.
earlyVars ==
    <<data, predictVars, compareVars, metricsVars, buildVars, viewVars, engineVars, uploadVars,
      detectVars>>
moreVars == <<viewVars, engineVars, uploadVars, detectVars, lateVars>>
\* What an action of the network view leaves alone besides the view's own state.
ViewFrame ==
    <<data, compareVars, metricsVars, buildVars, engineVars, uploadVars, detectVars, lateVars>>
\* What a call of the analysis service leaves alone: all but its result.
EngineFrame ==
    <<data, predictVars, compareVars, metricsVars, buildVars, viewVars, uploadVars, detectVars,
      lateVars>>
\* What the upload page leaves alone.
UploadFrame ==
    <<data, predictVars, compareVars, metricsVars, buildVars, viewVars, engineVars, detectVars,
      lateVars>>
\* What a community detection leaves alone: the graph included.
DetectFrame ==
    <<data, predictVars, compareVars, metricsVars, buildVars, viewVars, engineVars, uploadVars,
      lateVars>>
\* What the login page and the header leave alone.
AuthFrame == <<earlyVars, usersVars, panelVars, layoutVars, timelineVars>>
\* What the user list leaves alone.
UsersFrame == <<earlyVars, authVars, panelVars, layoutVars, timelineVars>>
\* What the layout and the drag handlers leave alone.
LayoutFrame == <<earlyVars, authVars, usersVars, panelVars, timelineVars>>
\* What the timeline leaves alone.
TimelineFrame == <<earlyVars, authVars, usersVars, panelVars, layoutVars>>
\* What the filter panel and the filters of the network page leave alone.
PanelFrame ==
    <<data, predictVars, compareVars, metricsVars, buildVars, linked, placed, advancedMetrics,
      engineVars, uploadVars, detectVars, authVars, usersVars, layoutVars, timelineVars>>
vars == <<data, predictVars, compareVars, metricsVars, buildVars, moreVars>>

\* --------------------------------------------------------------- sequences
Take(s, n) == SubSeq(s, 1, IF n < Len(s) THEN n ELSE Len(s))

RECURSIVE SeqOfSet(_)
\* The elements of a finite set of integer pairs, in ascending order.
PairLess(p, q) == p[1] < q[1] \/ (p[1] = q[1] /\ p[2] < q[2])
SeqOfSet(S) ==
    IF S = {} THEN <<>>
    ELSE LET m == CHOOSE x \in S : \A y \in S : x = y \/ PairLess(x, y)
         IN  <<m>> \o SeqOfSet(S \ {m})

\* ------------------------------------------------------------ loaded graph
NodeSeq(n, grp) == [i \in 1..n |-> [id |-> i, group |-> grp[i]]]

UnorderedPairs(n) == {p \in (1..n) \X (1..n) : p[1] < p[2]}

\* The networks a page can hold: ids 1..n, any community tags, any set of
\* undirected edges, each stored once, all in source<target orientation or
\* all in target<source orientation.
Networks ==
    UNION { { [nodes |-> NodeSeq(n, grp),
               edges |-> { IF flip THEN [source |-> p[2], target |-> p[1]]
                                   ELSE [source |-> p[1], target |-> p[2]] : p \in E }]
              : grp \in [1..n -> GroupIds],
                E \in SUBSET UnorderedPairs(n),
                flip \in IF n < 2 THEN {FALSE} ELSE BOOLEAN }
            : n \in 0..MaxNodes }

NodeIds(g) == {g.nodes[i].id : i \in 1..Len(g.nodes)}

\* a and b are joined by an edge of g, in either orientation.
Adjacent(g, a, b) ==
    \E e \in g.edges : (e.source = a /\ e.target = b) \/ (e.source = b /\ e.target = a)

\* ------------------------------------------------------------- JS numbers
\* A number, or the text toFixed makes of one: mag units with a sign (toFixed
\* keeps the sign of a negative value that rounds to zero), NaN or Infinity.
Abs(x) == IF x < 0 THEN -x ELSE x
Min(a, b) == IF a <= b THEN a ELSE b
Fin(x) == [kind |-> "num", neg |-> x < 0, mag |-> Abs(x)]
NaN == [kind |-> "NaN", neg |-> FALSE, mag |-> 0]
Infinity(neg) == [kind |-> "Infinity", neg |-> neg, mag |-> 0]

\* a - b of two JS numbers, a an integer.
JsMinus(a, b) ==
    CASE b.kind = "num" -> Fin(a - (IF b.neg THEN -b.mag ELSE b.mag))
      [] b.kind = "Infinity" -> Infinity(~b.neg)
      [] OTHER -> NaN

NoComparison == [kind |-> "null"]

\* A quotient n/d of two integers, d >= 0, as a JS number: n/0 is NaN for
\* n = 0 and an infinity otherwise.
Ratio(n, d) == [kind |-> "num", num |-> n, den |-> d]
JsDivide(n, d) ==
    IF d # 0 THEN Ratio(n, d)
    ELSE IF n = 0 THEN [kind |-> "NaN", num |-> 0, den |-> 0]
    ELSE [kind |-> "Infinity", num |-> n, den |-> 0]

NoMetrics == [kind |-> "null"]
NotBuilt == [status |-> "none"]
NoGraph == [nodes |-> <<>>, edges |-> {}, directed |-> FALSE, present |-> FALSE]

\* --------------------------------------------------------- link prediction
Link(s, t, p) == [source |-> s, target |-> t, probability |-> p]

\* Nodes adjacent to a or to b.
NeighborsOfEither(g, a, b) == {c \in NodeIds(g) : Adjacent(g, a, c) \/ Adjacent(g, b, c)}

\* Nodes adjacent to both a and b.
CommonNeighbors(g, a, b) == {c \in NodeIds(g) : Adjacent(g, a, c) /\ Adjacent(g, b, c)}

\* Candidate pairs of the analysis service: distinct, non-adjacent, source < target.
CandidatePairs(g) ==
    {p \in NodeIds(g) \X NodeIds(g) : p[1] < p[2] /\ ~Adjacent(g, p[1], p[2])}

\* b must come before a in the service's ranking.
RanksBefore(b, a) ==
    \/ b.probability > a.probability
    \/ /\ b.probability = a.probability
       /\ PairLess(<<b.source, b.target>>, <<a.source, a.target>>)

RECURSIVE Ranked(_)
Ranked(S) ==
    IF S = {} THEN <<>>
    ELSE LET m == CHOOSE x \in S : \A y \in S : x = y \/ RanksBefore(x, y)
         IN  <<m>> \o Ranked(S \ {m})

\* The analysis service's predictLinks(graph, k): common-neighbours scores of
\* the candidate pairs, ranked, at most k of them.
ServerPredictLinks(g, k) ==
    Take(Ranked({Link(p[1], p[2], Cardinality(CommonNeighbors(g, p[1], p[2])))
                 : p \in CandidatePairs(g)}), k)

\* networkApi.predictLinks' catch handler: topK entries, each a random pair of
\* distinct ids and a random probability. The set of its possible results.
SampleEntries ==
    {Link(s, t, p) : s \in SampleIds, t \in SampleIds, p \in ApiProbs} \ 
    {Link(s, s, p) : s \in SampleIds, p \in ApiProbs}

ApiFallbackPredictions(topK) == [1..topK -> SampleEntries]

\* handlePredictLinks: the keys `${sourceId}-${targetId}` and
\* `${targetId}-${sourceId}` of every edge.
ExistingEdges(g) ==
    UNION {{<<e.source, e.target>>, <<e.target, e.source>>} : e \in g.edges}

\* nodesByGroup[k]: the nodes tagged k, in array order.
GroupNodes(g, k) == SelectSeq(g.nodes, LAMBDA n : n.group = k)

\* The pairs pushed for one group: i < j in loop order, edge not existing.
GroupPairs(g, k) ==
    LET gn == GroupNodes(g, k)
        ij == SeqOfSet({p \in (1..Len(gn)) \X (1..Len(gn)) : p[1] < p[2]})
        pr == [x \in 1..Len(ij) |-> <<gn[ij[x][1]].id, gn[ij[x][2]].id>>]
    IN  SelectSeq(pr, LAMBDA p : p \notin ExistingEdges(g))

RECURSIVE PossiblePairsFrom(_, _)
\* Object.values(nodesByGroup) visits the integer keys in ascending order.
PossiblePairsFrom(g, ks) ==
    IF ks = {} THEN <<>>
    ELSE LET k == CHOOSE x \in ks : \A y \in ks : x <= y
         IN  GroupPairs(g, k) \o PossiblePairsFrom(g, ks \ {k})

PossiblePairs(g) ==
    PossiblePairsFrom(g, {g.nodes[i].group : i \in 1..Len(g.nodes)})

RECURSIVE InsertDesc(_, _)
\* x placed after every entry of the sorted s whose probability is >= x's.
InsertDesc(s, x) ==
    IF s = <<>> THEN <<x>>
    ELSE IF Head(s).probability >= x.probability
         THEN <<Head(s)>> \o InsertDesc(Tail(s), x)
         ELSE <<x>> \o s

RECURSIVE SortByProbability(_)
\* possibleLinks.sort((a, b) => b.probability - a.probability): a stable sort.
SortByProbability(s) ==
    IF s = <<>> THEN <<>>
    ELSE InsertDesc(SortByProbability(SubSeq(s, 1, Len(s) - 1)), s[Len(s)])

\* The sorted list kept whole, the slice forgotten.
TopPredictionsUnsliced(s) == s

\* possibleLinks.slice(0, 10)
TopPredictions(s) == Take(s, TopK)

\* The local fallback's result when the pushed pairs get the probabilities pr.
LocalPredictions(g, pr) ==
    LET pp == PossiblePairs(g)
    IN  TopPredictions(SortByProbability(
            [x \in 1..Len(pp) |-> Link(pp[x][1], pp[x][2], pr[x])]))

\* NetworkView before any prediction was asked for.
PredictInit ==
    /\ predictedLinks = <<>>
    /\ showPredictions = FALSE
    /\ predictionError = "null"
    /\ predPath = "none"

\* NetworkComparison as constructed.
CompareInit ==
    /\ selectedSnapshots = <<>>
    /\ comparisonData = NoComparison
    /\ loading = FALSE
    /\ error = "null"
    /\ cmpPath = "none"

\* No construction asked for.
BuildIdle ==
    /\ rawInput = [nodes |-> <<>>, edges |-> <<>>, directed |-> FALSE]
    /\ buildResult = NotBuilt

\* No network page mounted.
ViewIdle ==
    /\ viewData = [nodes |-> <<>>, edges |-> <<>>]
    /\ filters = [showGroups |-> {}, minEdgeWeight |-> 1, maxNodeDegree |-> <<>>,
                  minNodeDegree |-> <<>>, showIsolatedNodes |-> TRUE]
    /\ filteredData = [by |-> "none", nodes |-> <<>>, edges |-> <<>>]
    /\ linked = {}
    /\ placed = FALSE
    /\ advancedMetrics = NoMetrics

\* No analysis asked of the service.
EngineIdle == analysis = [algorithm |-> "none"]

NoFile == [format |-> "none", isValid |-> FALSE, name |-> <<>>]
NoRequest == [sent |-> FALSE]
DefaultImportOptions ==
    [nodeIdField |-> "id", weightField |-> "weight", anonymize |-> TRUE, skipFirstRow |-> TRUE]

\* The upload page as constructed.
UploadIdle ==
    /\ fileInfo = NoFile
    /\ importOptions = DefaultImportOptions
    /\ isLoading = FALSE
    /\ uploadError = "null"
    /\ uploadResult = "null"
    /\ lastRequest = NoRequest

NoRun == [algorithm |-> "none", phase |-> "idle"]
NoPartition == [algorithm |-> "none"]
\* No community detection asked.
DetectIdle == run = NoRun /\ partition = NoPartition

\* The stored flags with nothing stored.
NoFlags == [isLoggedIn |-> "null", isAdmin |-> "null"]

\* Nobody logged in, nothing stored, no request in flight.
AuthIdle ==
    /\ isLoggedIn = FALSE
    /\ isAdmin = FALSE
    /\ localStorage = NoFlags
    /\ routes = {}
    /\ loginError = ""
    /\ authRequests = <<>>
    /\ location = "/"

\* No user list mounted.
UsersIdle ==
    /\ userList = "none"
    /\ users = {}
    /\ usersLoading = FALSE
    /\ usersError = "null"
    /\ deletingId = 0
    /\ deleteRequests = {}
    /\ serverUsers = {}

\* No filter panel mounted.
PanelIdle ==
    panelFilters = [showGroups |-> {}, minEdgeWeight |-> 1, maxNodeDegree |-> <<>>,
                    minNodeDegree |-> <<>>, showIsolatedNodes |-> TRUE]

\* No visualization drawn.
LayoutIdle ==
    /\ layoutAlgorithm = "force"
    /\ fx = <<>>
    /\ dragging = 0

NoPoint == [timestamp |-> 0, label |-> <<>>]

\* No timeline mounted.
TimelineIdle ==
    /\ timelineData = <<>>
    /\ selectedIndices = <<>>
    /\ clickedPoint = NoPoint
    /\ reportedIndex = 0

LateIdle == AuthIdle /\ UsersIdle /\ PanelIdle /\ LayoutIdle /\ TimelineIdle

MoreIdle == ViewIdle /\ EngineIdle /\ UploadIdle /\ DetectIdle /\ LateIdle

\* Dashboard as constructed, NetworkView without metrics.
MetricsInit ==
    /\ networkInfo = NoMetrics
    /\ networkSummary = [nodeCount |-> 0, edgeCount |-> 0, density |-> Ratio(0, 1)]
    /\ responseMetrics = NoMetrics
    /\ page = "none"

\* The network page, any network loaded.
Init ==
    /\ data \in Networks
    /\ PredictInit
    /\ snapshots = <<>>
    /\ CompareInit
    /\ MetricsInit
    /\ BuildIdle
    /\ MoreIdle

\* handlePredictLinks, the request answered with a predictions list.
PredictServer ==
    /\ predictedLinks' = ServerPredictLinks(data, TopK)
    /\ showPredictions' = TRUE
    /\ predictionError' = "null"
    /\ predPath' = "server"
    /\ UNCHANGED <<data, compareVars, metricsVars, buildVars, moreVars>>

\* handlePredictLinks, the request failed: networkApi.predictLinks' catch
\* handler answers in the server's place.
PredictApiFallback ==
    /\ \E r \in ApiFallbackPredictions(TopK) : predictedLinks' = r
    /\ showPredictions' = TRUE
    /\ predictionError' = "null"
    /\ predPath' = "apiFallback"
    /\ UNCHANGED <<data, compareVars, metricsVars, buildVars, moreVars>>

\* handlePredictLinks, the answer carries no predictions: links are generated
\* from the loaded network.
PredictLocal ==
    /\ Len(data.nodes) > 0
    /\ \E pr \in [1..Len(PossiblePairs(data)) -> LocalProbs] :
           predictedLinks' = LocalPredictions(data, pr)
    /\ showPredictions' = TRUE
    /\ predictionError' = "null"
    /\ predPath' = "local"
    /\ UNCHANGED <<data, compareVars, metricsVars, buildVars, moreVars>>

\* handlePredictLinks, the answer carries no predictions and the network is empty.
PredictNoData ==
    /\ Len(data.nodes) = 0
    /\ predictionError' = "missing network data"
    /\ predPath' = "error"
    /\ UNCHANGED <<data, predictedLinks, showPredictions, compareVars, metricsVars, buildVars, moreVars>>

Next ==
    \/ PredictServer
    \/ PredictApiFallback
    \/ PredictLocal
    \/ PredictNoData

Spec == Init /\ [][Next]_vars

\* ------------------------------------------------- claims: link prediction
\* handlePredictLinks has set a prediction list (it did not end in the error).
Predicted == predPath \in {"server", "apiFallback", "local"}

\* C1: no returned prediction is a self-pair or joins two nodes that an edge
\* of the network already joins, in either orientation, whichever path
\* produced the predictions.
C1_NoSelfPairNoExistingEdge ==
    Predicted =>
        \A i \in 1..Len(predictedLinks) :
            /\ predictedLinks[i].source # predictedLinks[i].target
            /\ ~Adjacent(data, predictedLinks[i].source, predictedLinks[i].target)

\* C4: the returned predictions are in non-increasing order of score, and two
\* entries of equal score are in ascending (source, target) order.
C4_SortedWithTieBreak ==
    Predicted =>
        \A i, j \in 1..Len(predictedLinks) :
            i < j =>
                \/ predictedLinks[i].probability > predictedLinks[j].probability
                \/ /\ predictedLinks[i].probability = predictedLinks[j].probability
                   /\ ~PairLess(<<predictedLinks[j].source, predictedLinks[j].target>>,
                                <<predictedLinks[i].source, predictedLinks[i].target>>)

\* C5: at most k predictions are returned, on every path.
C5_AtMostK == Predicted => Len(predictedLinks) <= TopK

\* C5 witness: the local fallback found more than k possible links and kept k.
C5_Witness ==
    /\ predPath = "local"
    /\ Len(PossiblePairs(data)) > TopK
    /\ Len(predictedLinks) = TopK

\* handlePredictLinks has run to its end, on whichever path.
PredictionReturned == predPath # "none"

\* C13: for a network of fewer than 2 nodes, or one in which every two distinct
\* nodes are adjacent, the prediction is the empty list and no error is set.
C13_EmptyWhenNoCandidate ==
    (PredictionReturned /\ (Len(data.nodes) < 2 \/ CandidatePairs(data) = {})) =>
        /\ predictedLinks = <<>>
        /\ predictionError = "null"

\* C12: when the served prediction fails or runs into the request's timeout,
\* the caller still gets a ranked list scored from the network and no error:
\* the entries join distinct nodes of the network and their scores do not
\* increase along the list.
C12_FallbackIsRankedHeuristic ==
    predPath \in {"apiFallback", "local"} =>
        /\ predictionError = "null"
        /\ \A i \in 1..Len(predictedLinks) :
               /\ predictedLinks[i].source \in NodeIds(data)
               /\ predictedLinks[i].target \in NodeIds(data)
               /\ predictedLinks[i].source # predictedLinks[i].target
        /\ \A i, j \in 1..Len(predictedLinks) :
               i < j => predictedLinks[i].probability >= predictedLinks[j].probability

\* ------------------------------------------------------ snapshot comparison
\* Rounded quotient: n/d to the nearest integer, halves away from zero (d > 0).
RoundDiv(n, d) == (2 * n + d) \div (2 * d)

\* A snapshot with the metadata the analysis service lists for it: density to
\* four decimals (units of 0.0001), average degree to two (units of 0.01).
Snapshot(id, V, E) ==
    LET n == Cardinality(V)
        m == Cardinality(E)
    IN  [id |-> id, nodes |-> V, edges |-> E,
         nodeCount |-> n, edgeCount |-> m,
         density |-> IF n <= 1 THEN 0 ELSE RoundDiv(2 * m * 10000, n * (n - 1)),
         avgDegree |-> IF n = 0 THEN 0 ELSE RoundDiv(2 * m * 100, n)]

\* The graphs a snapshot can hold: any node ids up to MaxSnapNodes, any set of
\* undirected edges among them, keyed by the order-normalised endpoint pair.
SnapshotGraphs ==
    UNION { { <<V, E>> : E \in SUBSET {p \in V \X V : p[1] < p[2]} }
            : V \in SUBSET (1..MaxSnapNodes) }

FindSnapshot(id) ==
    LET i == CHOOSE k \in 1..Len(snapshots) : snapshots[k].id = id
    IN  snapshots[i]

SnapshotIds == {snapshots[k].id : k \in 1..Len(snapshots)}

Includes(s, x) == \E k \in 1..Len(s) : s[k] = x

\* ((growth / count) * 100).toFixed(1), in tenths of a percent.
GrowthPercent(growth, count) ==
    IF count = 0
    THEN IF growth = 0 THEN NaN ELSE Infinity(growth < 0)
    ELSE [kind |-> "num", neg |-> growth < 0,
          mag |-> RoundDiv(Abs(growth) * 1000, count)]

\* Math.floor(count * Math.min(ratio, 1 - Math.abs(growth) / (2 * count))) for
\* ratio = num/den; NaN when count is 0. The doubles the code computes with
\* give the exact value for every count up to 10.
CommonEstimate(count, growth, num, den) ==
    IF count = 0 THEN NaN
    ELSE Fin(Min((count * num) \div den, (2 * count - Abs(growth)) \div 2))

\* The new and removed counts generateComparisonData derives from a growth and
\* the estimated common count.
EstimatedChanges(count, growth, common) ==
    IF growth >= 0
    THEN [new |-> Fin(growth), removed |-> JsMinus(count, common)]
    ELSE [new |-> JsMinus(count, common), removed |-> Fin(-growth)]

\* generateComparisonData for snapshot1 = s1, snapshot2 = s2 (the community
\* figures, drawn at random for display, are left out).
GenerateComparisonData(s1, s2) ==
    LET nodeGrowth == s2.nodeCount - s1.nodeCount
        edgeGrowth == s2.edgeCount - s1.edgeCount
        commonNodes == CommonEstimate(s1.nodeCount, nodeGrowth, 9, 10)
        commonEdges == CommonEstimate(s1.edgeCount, edgeGrowth, 17, 20)
        nc == EstimatedChanges(s1.nodeCount, nodeGrowth, commonNodes)
        ec == EstimatedChanges(s1.edgeCount, edgeGrowth, commonEdges)
    IN  [kind |-> "data",
         nodeGrowth |-> nodeGrowth,
         nodeGrowthPercent |-> GrowthPercent(nodeGrowth, s1.nodeCount),
         edgeGrowth |-> edgeGrowth,
         edgeGrowthPercent |-> GrowthPercent(edgeGrowth, s1.edgeCount),
         densityChange |-> Fin(s2.density - s1.density),
         avgDegreeChange |-> Fin(s2.avgDegree - s1.avgDegree),
         structuralChanges |->
             [commonNodes |-> commonNodes,
              newNodes |-> nc.new, removedNodes |-> nc.removed,
              commonEdges |-> commonEdges,
              newEdges |-> ec.new, removedEdges |-> ec.removed]]

\* compare(A, B) of the analysis service: the node and edge deltas by id and
\* the growth of the aggregate metrics.
ServerCompare(s1, s2) ==
    [kind |-> "data",
     nodeGrowth |-> s2.nodeCount - s1.nodeCount,
     nodeGrowthPercent |-> GrowthPercent(s2.nodeCount - s1.nodeCount, s1.nodeCount),
     edgeGrowth |-> s2.edgeCount - s1.edgeCount,
     edgeGrowthPercent |-> GrowthPercent(s2.edgeCount - s1.edgeCount, s1.edgeCount),
     densityChange |-> Fin(s2.density - s1.density),
     avgDegreeChange |-> Fin(s2.avgDegree - s1.avgDegree),
     structuralChanges |->
         [commonNodes |-> Fin(Cardinality(s1.nodes \cap s2.nodes)),
          newNodes |-> Fin(Cardinality(s2.nodes \ s1.nodes)),
          removedNodes |-> Fin(Cardinality(s1.nodes \ s2.nodes)),
          commonEdges |-> Fin(Cardinality(s1.edges \cap s2.edges)),
          newEdges |-> Fin(Cardinality(s2.edges \ s1.edges)),
          removedEdges |-> Fin(Cardinality(s1.edges \ s2.edges))]]

\* -x for the text x of a number: (-parseFloat(x)).toFixed(d).
NegateFixed(x) ==
    IF x.kind = "num"
    THEN [kind |-> "num", neg |-> ~x.neg /\ x.mag # 0, mag |-> x.mag]
    ELSE IF x.kind = "Infinity" THEN Infinity(~x.neg) ELSE NaN

\* The growths negated and the structural counts copied as stored.
ReverseComparisonUnswapped(r) ==
    [kind |-> "data",
     nodeGrowth |-> -r.nodeGrowth,
     nodeGrowthPercent |-> NegateFixed(r.nodeGrowthPercent),
     edgeGrowth |-> -r.edgeGrowth,
     edgeGrowthPercent |-> NegateFixed(r.edgeGrowthPercent),
     densityChange |-> NegateFixed(r.densityChange),
     avgDegreeChange |-> NegateFixed(r.avgDegreeChange),
     structuralChanges |-> r.structuralChanges]

\* compareSnapshots' adjustment of the data stored for the reversed pair.
ReverseComparison(r) ==
    [kind |-> "data",
     nodeGrowth |-> -r.nodeGrowth,
     nodeGrowthPercent |-> NegateFixed(r.nodeGrowthPercent),
     edgeGrowth |-> -r.edgeGrowth,
     edgeGrowthPercent |-> NegateFixed(r.edgeGrowthPercent),
     densityChange |-> NegateFixed(r.densityChange),
     avgDegreeChange |-> NegateFixed(r.avgDegreeChange),
     structuralChanges |->
         [commonNodes |-> r.structuralChanges.commonNodes,
          newNodes |-> r.structuralChanges.removedNodes,
          removedNodes |-> r.structuralChanges.newNodes,
          commonEdges |-> r.structuralChanges.commonEdges,
          newEdges |-> r.structuralChanges.removedEdges,
          removedEdges |-> r.structuralChanges.newEdges]]

\* The comparison test_snapshots.json stores under the key `${a}_${b}`.
StoredComparison(a, b) == ServerCompare(FindSnapshot(a), FindSnapshot(b))

\* toggleSnapshotSelection's updater.
\* The cap forgotten: an unselected snapshot is always appended.
ToggledSelectionUncapped(prev, id) ==
    IF Includes(prev, id) THEN SelectSeq(prev, LAMBDA x : x # id)
    ELSE Append(prev, id)

\* toggleSnapshotSelection's updater.
ToggledSelection(prev, id) ==
    IF Includes(prev, id) THEN SelectSeq(prev, LAMBDA x : x # id)
    ELSE IF Len(prev) < 2 THEN Append(prev, id)
    ELSE <<prev[1], id>>

\* The comparison page: two snapshots of any content and a third whose
\* content is that of the first.
InitCompare ==
    /\ data = [nodes |-> <<>>, edges |-> {}]
    /\ PredictInit
    /\ \E A \in SnapshotGraphs, B \in SnapshotGraphs :
           snapshots = << Snapshot("a", A[1], A[2]),
                          Snapshot("b", B[1], B[2]),
                          Snapshot("c", A[1], A[2]) >>
    /\ CompareInit
    /\ MetricsInit
    /\ BuildIdle
    /\ MoreIdle

\* A click on a snapshot card (the selection is on screen).
ToggleSnapshotSelection(id) ==
    /\ ~loading
    /\ comparisonData = NoComparison
    /\ selectedSnapshots' = ToggledSelection(selectedSnapshots, id)
    /\ UNCHANGED <<snapshots, comparisonData, loading, error, cmpPath, predictVars, data, metricsVars, buildVars, moreVars>>

\* compareSnapshots up to its request: the compare button, enabled with two
\* snapshots selected.
CompareStart ==
    /\ ~loading
    /\ comparisonData = NoComparison
    /\ Len(selectedSnapshots) = 2
    /\ loading' = TRUE
    /\ error' = "null"
    /\ UNCHANGED <<snapshots, selectedSnapshots, comparisonData, cmpPath, predictVars, data, metricsVars, buildVars, moreVars>>

\* compareSnapshots with another number of snapshots selected (the button is
\* disabled then; the handler has the guard): the error is set and nothing else.
CompareRejected ==
    /\ ~loading
    /\ comparisonData = NoComparison
    /\ Len(selectedSnapshots) # 2
    /\ error' = "select two snapshots"
    /\ error' # error
    /\ UNCHANGED <<snapshots, selectedSnapshots, comparisonData, loading, cmpPath, predictVars, data, metricsVars, buildVars, moreVars>>

\* The finally block left out: the result is set and loading stays true.
CompareFinishStillLoading(result, path) ==
    /\ loading
    /\ comparisonData = NoComparison
    /\ comparisonData' = result
    /\ cmpPath' = path
    /\ UNCHANGED <<snapshots, selectedSnapshots, loading, error, predictVars, data, metricsVars, buildVars, moreVars>>

\* compareSnapshots after its request: the result is set, then the finally
\* block clears loading.
CompareFinish(result, path) ==
    /\ loading
    /\ comparisonData' = result
    /\ cmpPath' = path
    /\ loading' = FALSE
    /\ UNCHANGED <<snapshots, selectedSnapshots, error, predictVars, data, metricsVars, buildVars, moreVars>>

\* The compare request succeeded.
CompareServer ==
    CompareFinish(ServerCompare(FindSnapshot(selectedSnapshots[1]),
                                FindSnapshot(selectedSnapshots[2])), "server")

\* The request failed and the test data holds the pair.
CompareStored ==
    CompareFinish(StoredComparison(selectedSnapshots[1], selectedSnapshots[2]), "stored")

\* The request failed and the test data holds the reversed pair.
CompareStoredReverse ==
    CompareFinish(ReverseComparison(
        StoredComparison(selectedSnapshots[2], selectedSnapshots[1])), "reverse")

\* The request failed and the test data holds neither pair, or cannot be fetched.
CompareGenerated ==
    CompareFinish(GenerateComparisonData(FindSnapshot(selectedSnapshots[1]),
                                         FindSnapshot(selectedSnapshots[2])), "generated")

\* handleBackToSelection
BackToSelection ==
    /\ ~loading
    /\ comparisonData # NoComparison
    /\ comparisonData' = NoComparison
    /\ selectedSnapshots' = <<>>
    /\ error' = "null"
    /\ cmpPath' = "none"
    /\ UNCHANGED <<snapshots, loading, predictVars, data, metricsVars, buildVars, moreVars>>

NextCompare ==
    \/ \E id \in SnapshotIds : ToggleSnapshotSelection(id)
    \/ CompareStart
    \/ CompareRejected
    \/ CompareServer
    \/ CompareStored
    \/ CompareStoredReverse
    \/ CompareGenerated
    \/ BackToSelection

SpecCompare == InitCompare /\ [][NextCompare]_vars

\* The request of compareSnapshots is answered or fails, and the fetch of the
\* test data after it: the awaits of the handler all return.
CompareAnswered == CompareServer \/ CompareStored \/ CompareStoredReverse \/ CompareGenerated

SpecCompareFair == SpecCompare /\ WF_vars(CompareAnswered)

\* ---------------------------------------------- claims: snapshot comparison
\* The two snapshots of the comparison on screen.
Shown == comparisonData # NoComparison /\ ~loading /\ Len(selectedSnapshots) = 2
SnapA == FindSnapshot(selectedSnapshots[1])
SnapB == FindSnapshot(selectedSnapshots[2])

\* C2: the comparison of A and B reports the number of ids in both as common,
\* of ids only in B as added and of ids only in A as removed, for nodes and
\* for edges keyed by their order-normalised endpoints.
C2_ExactDeltas ==
    Shown =>
        LET sc == comparisonData.structuralChanges
        IN  /\ sc.commonNodes = Fin(Cardinality(SnapA.nodes \cap SnapB.nodes))
            /\ sc.newNodes = Fin(Cardinality(SnapB.nodes \ SnapA.nodes))
            /\ sc.removedNodes = Fin(Cardinality(SnapA.nodes \ SnapB.nodes))
            /\ sc.commonEdges = Fin(Cardinality(SnapA.edges \cap SnapB.edges))
            /\ sc.newEdges = Fin(Cardinality(SnapB.edges \ SnapA.edges))
            /\ sc.removedEdges = Fin(Cardinality(SnapA.edges \ SnapB.edges))

\* C3: a snapshot compared with a snapshot of the same nodes, edges and
\* metrics has no added and no removed node or edge and zero growth.
C3_SelfCompareIsEmpty ==
    (Shown /\ SnapA.nodes = SnapB.nodes /\ SnapA.edges = SnapB.edges) =>
        LET sc == comparisonData.structuralChanges
        IN  /\ sc.newNodes = Fin(0) /\ sc.removedNodes = Fin(0)
            /\ sc.newEdges = Fin(0) /\ sc.removedEdges = Fin(0)
            /\ comparisonData.nodeGrowth = 0
            /\ comparisonData.edgeGrowth = 0
            /\ comparisonData.densityChange = Fin(0)
            /\ comparisonData.avgDegreeChange = Fin(0)

\* C19: the selection holds at most 2 snapshot ids, none twice; a click on a
\* selected snapshot removes it and keeps the other, a click on an unselected
\* one appends it while fewer than two are selected and otherwise replaces the
\* second and keeps the first.
C19_SelectionAtMostTwo ==
    /\ [](/\ Len(selectedSnapshots) <= 2
          /\ \A i, j \in 1..Len(selectedSnapshots) :
                 i # j => selectedSnapshots[i] # selectedSnapshots[j])
    /\ [][\A id \in SnapshotIds :
            ToggleSnapshotSelection(id) =>
                LET prev == selectedSnapshots
                    now == selectedSnapshots'
                    wasSelected == \E i \in 1..Len(prev) : prev[i] = id
                IN  /\ wasSelected =>
                        /\ Len(now) = Len(prev) - 1
                        /\ \A i \in 1..Len(now) : now[i] # id
                        /\ \A i \in 1..Len(prev) :
                               prev[i] # id => \E j \in 1..Len(now) : now[j] = prev[i]
                    /\ (~wasSelected /\ Len(prev) < 2) => now = prev \o <<id>>
                    /\ (~wasSelected /\ Len(prev) = 2) => now = <<prev[1], id>>]_vars

\* C27: a compareSnapshots call with exactly two snapshots selected sets
\* loading, loading is cleared again on every path, and when it is cleared
\* comparisonData or error is set; a call with another number of snapshots
\* selected sets the error, leaves loading false and sends no request.
C27_LoadingAlwaysCleared ==
    /\ [][CompareStart => loading']_vars
    /\ loading ~> ~loading
    /\ [][(loading /\ ~loading') =>
            (comparisonData' # NoComparison \/ error' # "null")]_vars
    /\ [][CompareRejected =>
            /\ error' # "null"
            /\ ~loading'
            /\ UNCHANGED <<comparisonData, cmpPath>>]_vars

\* C27 witness: a comparison of two selected snapshots went through the
\* request, fell back to the generated data and cleared loading.
C27_Witness ==
    /\ cmpPath = "generated"
    /\ ~loading
    /\ comparisonData # NoComparison
    /\ Len(selectedSnapshots) = 2

\* C29: the result shown for (A, B) from the data stored for (B, A) is the
\* mirror image of that data: the node, edge, density and average-degree
\* growths (and the growth percentages) are negated, the new and removed
\* counts of nodes and of edges are swapped, the common counts are unchanged;
\* mirroring the shown result gives back the stored data, and the growths shown
\* are those of B over A.
C29_ReverseIsMirror ==
    (Shown /\ cmpPath = "reverse") =>
        LET r == StoredComparison(selectedSnapshots[2], selectedSnapshots[1])
            d == comparisonData
        IN  /\ d.nodeGrowth + r.nodeGrowth = 0
            /\ d.edgeGrowth + r.edgeGrowth = 0
            /\ d.nodeGrowthPercent = JsMinus(0, r.nodeGrowthPercent)
            /\ d.edgeGrowthPercent = JsMinus(0, r.edgeGrowthPercent)
            /\ d.densityChange = JsMinus(0, r.densityChange)
            /\ d.avgDegreeChange = JsMinus(0, r.avgDegreeChange)
            /\ d.structuralChanges.newNodes = r.structuralChanges.removedNodes
            /\ d.structuralChanges.removedNodes = r.structuralChanges.newNodes
            /\ d.structuralChanges.newEdges = r.structuralChanges.removedEdges
            /\ d.structuralChanges.removedEdges = r.structuralChanges.newEdges
            /\ d.structuralChanges.commonNodes = r.structuralChanges.commonNodes
            /\ d.structuralChanges.commonEdges = r.structuralChanges.commonEdges
            /\ ReverseComparison(d) = r
            /\ d.nodeGrowth = SnapB.nodeCount - SnapA.nodeCount
            /\ d.edgeGrowth = SnapB.edgeCount - SnapA.edgeCount
            /\ d.densityChange = Fin(SnapB.density - SnapA.density)
            /\ d.avgDegreeChange = Fin(SnapB.avgDegree - SnapA.avgDegree)

\* C29 witness: the mirrored data of a pair whose snapshots differ in node
\* count, edge count and density, with different numbers of new and removed
\* nodes and edges, is on screen.
C29_Witness ==
    /\ Shown /\ cmpPath = "reverse"
    /\ comparisonData.nodeGrowth < 0
    /\ comparisonData.edgeGrowth > 0
    /\ comparisonData.densityChange # Fin(0)
    /\ comparisonData.structuralChanges.newNodes # comparisonData.structuralChanges.removedNodes
    /\ comparisonData.structuralChanges.newEdges # comparisonData.structuralChanges.removedEdges

\* C19 witness: two snapshots are selected, the third is not.
C19_Witness ==
    /\ Len(selectedSnapshots) = 2
    /\ \E id \in SnapshotIds : \A i \in 1..2 : selectedSnapshots[i] # id
    /\ comparisonData = NoComparison
    /\ ~loading

\* ------------------------------------------------------------------ metrics
\* Nodes and edges of the sample network networkApi.getNetwork's catch handler
\* generates for an id other than 'community' and 'random'.
SampleNodeCount == 15
SampleEdgeCount == 20
\* The node and edge counts Dashboard falls back to.
DefaultNodeCount == 178
DefaultEdgeCount == 562

EmptyNetwork == [nodes |-> <<>>, edges |-> {}]

\* NetworkView.fetchData's own metrics of the nodes and edges it loaded.
BasicMetrics(n, m) ==
    [kind |-> "data", node_count |-> n, edge_count |-> m,
     density |-> JsDivide(2 * m, n * (n - 1)),
     average_degree |-> JsDivide(2 * m, n)]

\* The metrics networkApi.getNetwork's catch handler attaches to its answer.
ResponseMetrics(n, m) ==
    [kind |-> "data", node_count |-> n, edge_count |-> m,
     density |-> JsDivide(2 * m, n * (n - 1)),
     average_degree |-> JsDivide(2 * m, n)]

\* The density the analysis service reports for n nodes and m edges.
ServerDensity(n, m) == IF n <= 1 THEN Ratio(0, 1) ELSE Ratio(2 * m, n * (n - 1))
\* The average degree the analysis service reports.
ServerAverageDegree(n, m) == IF n = 0 THEN Ratio(0, 1) ELSE Ratio(2 * m, n)

\* x || 0
OrZero(x) ==
    IF x.kind = "NaN" \/ (x.kind = "num" /\ x.num = 0) THEN Ratio(0, 1) ELSE x

\* NetworkView.fetchData's metrics when /api/network/metrics answered.
ServedMetrics(n, m) ==
    [kind |-> "data", node_count |-> n, edge_count |-> m,
     density |-> OrZero(ServerDensity(n, m)),
     average_degree |-> OrZero(ServerAverageDegree(n, m))]

\* The guard dropped: the quotient computed for every node count.
calculateDensityUnguarded(nodeCount, edgeCount) ==
    JsDivide(2 * edgeCount, nodeCount * (nodeCount - 1))

\* Dashboard.calculateDensity
calculateDensity(nodeCount, edgeCount) ==
    IF nodeCount <= 1 THEN Ratio(0, 1)
    ELSE JsDivide(2 * edgeCount, nodeCount * (nodeCount - 1))

NodeCount(g) == Len(g.nodes)
EdgeCount(g) == Cardinality(g.edges)

\* No page mounted yet.
InitMetrics ==
    /\ data = EmptyNetwork
    /\ PredictInit
    /\ snapshots = <<>>
    /\ CompareInit
    /\ MetricsInit
    /\ BuildIdle
    /\ MoreIdle

ViewLoaded(g, info, branch) ==
    /\ page = "none"
    /\ data' = g
    /\ networkInfo' = info
    /\ page' = branch
    /\ UNCHANGED <<networkSummary, responseMetrics, predictVars, compareVars, buildVars, moreVars>>

\* NetworkView.fetchData: the snapshot's network and its metrics were served.
ViewSnapshotServedMetrics ==
    \E g \in Networks :
        ViewLoaded(g, ServedMetrics(NodeCount(g), EdgeCount(g)), "view-served")

\* NetworkView.fetchData: the snapshot's network was served, the metrics
\* request failed.
ViewSnapshotBasicMetrics ==
    \E g \in Networks :
        ViewLoaded(g, BasicMetrics(NodeCount(g), EdgeCount(g)), "view-basic")

\* NetworkView.fetchData: the network came from the general endpoint.
ViewGeneralNetwork ==
    \E g \in Networks :
        ViewLoaded(g, BasicMetrics(NodeCount(g), EdgeCount(g)), "view-general")

DashboardLoaded(n, m, density, response, branch) ==
    /\ page = "none"
    /\ networkSummary' = [nodeCount |-> n, edgeCount |-> m, density |-> density]
    /\ responseMetrics' = response
    /\ page' = branch
    /\ UNCHANGED <<data, networkInfo, predictVars, compareVars, buildVars, moreVars>>

\* Dashboard: the latest snapshot's listed counts and density.
DashboardSnapshot ==
    \E g \in Networks :
        DashboardLoaded(NodeCount(g), EdgeCount(g),
                        ServerDensity(NodeCount(g), EdgeCount(g)), NoMetrics,
                        "dashboard-snapshot")

\* Dashboard: no snapshot; the first network of the list was served.
DashboardNetwork ==
    \E g \in Networks :
        DashboardLoaded(NodeCount(g), EdgeCount(g),
                        calculateDensity(NodeCount(g), EdgeCount(g)), NoMetrics,
                        "dashboard-network")

\* Dashboard: no snapshot, and networkApi.getNetwork's catch handler answered
\* with the sample network.
DashboardSampleNetwork ==
    DashboardLoaded(SampleNodeCount, SampleEdgeCount,
                    calculateDensity(SampleNodeCount, SampleEdgeCount),
                    ResponseMetrics(SampleNodeCount, SampleEdgeCount),
                    "dashboard-sample")

\* Dashboard: nothing could be loaded; density 0.03.
DashboardDefault ==
    DashboardLoaded(DefaultNodeCount, DefaultEdgeCount, Ratio(3, 100), NoMetrics,
                    "dashboard-default")

\* The page is left: its state is gone.
LeavePage ==
    /\ page # "none"
    /\ data' = EmptyNetwork
    /\ networkInfo' = NoMetrics
    /\ networkSummary' = [nodeCount |-> 0, edgeCount |-> 0, density |-> Ratio(0, 1)]
    /\ responseMetrics' = NoMetrics
    /\ page' = "none"
    /\ UNCHANGED <<predictVars, compareVars, buildVars, moreVars>>

NextMetrics ==
    \/ ViewSnapshotServedMetrics
    \/ ViewSnapshotBasicMetrics
    \/ ViewGeneralNetwork
    \/ DashboardSnapshot
    \/ DashboardNetwork
    \/ DashboardSampleNetwork
    \/ DashboardDefault
    \/ LeavePage

SpecMetrics == InitMetrics /\ [][NextMetrics]_vars

\* ----------------------------------------------------------- claims: metrics
Defined(x) == x.kind = "num" /\ x.den > 0

\* C6: wherever the metrics of a network are computed, density and average
\* degree are defined numbers, also for networks of no node or one node.
C6_MetricsDefined ==
    /\ networkInfo # NoMetrics =>
           Defined(networkInfo.density) /\ Defined(networkInfo.average_degree)
    /\ responseMetrics # NoMetrics =>
           Defined(responseMetrics.density) /\ Defined(responseMetrics.average_degree)
    /\ Defined(networkSummary.density)

\* C7: the density calculateDensity gives for a graph without self-loops and
\* with at most one edge per node pair is 2|E| / (|V|(|V|-1)), lies in [0, 1],
\* and is 0 for a graph of at most one node.
C7_DensityInUnitInterval ==
    page \in {"dashboard-network", "dashboard-sample"} =>
        LET d == networkSummary.density
            n == networkSummary.nodeCount
            m == networkSummary.edgeCount
        IN  /\ Defined(d)
            /\ 0 <= d.num /\ d.num <= d.den
            /\ n <= 1 => d.num = 0
            /\ n > 1 => d.num * (n * (n - 1)) = 2 * m * d.den

\* C7 witness: Dashboard computed the density of a one-node graph, 0.
C7_Witness ==
    /\ page = "dashboard-network"
    /\ networkSummary.nodeCount = 1
    /\ networkSummary.density = Ratio(0, 1)

\* -------------------------------------------------------- graph construction
RawNodeLists == UNION {[1..k -> RawIds] : k \in 0..MaxRawNodes}
RawEdgeRecords == [source : RawIds, target : RawIds, weight : Weights]
RawEdgeLists == UNION {[1..k -> RawEdgeRecords] : k \in 0..MaxRawEdges}

RawNodeIds(in) == {in.nodes[i] : i \in 1..Len(in.nodes)}

\* The construction errors the input calls for.
Faults(in) ==
    {"DuplicateNodeId" : x \in {p \in (1..Len(in.nodes)) \X (1..Len(in.nodes)) :
                                    p[1] # p[2] /\ in.nodes[p[1]] = in.nodes[p[2]]}}
    \cup {"DanglingEdge" : i \in {k \in 1..Len(in.edges) :
                                    \/ in.edges[k].source \notin RawNodeIds(in)
                                    \/ in.edges[k].target \notin RawNodeIds(in)}}
    \cup {"SelfLoop" : i \in {k \in 1..Len(in.edges) :
                                    in.edges[k].source = in.edges[k].target}}
    \cup {"NegativeWeight" : i \in {k \in 1..Len(in.edges) : in.edges[k].weight <= 0}}

\* The key of an edge: (source, target), unordered for an undirected graph.
EdgeKey(e, directed) ==
    IF directed \/ e.source < e.target THEN <<e.source, e.target>>
    ELSE <<e.target, e.source>>

\* The edge added beside an edge of the same key.
AddEdgeKeepingOld(E, e, directed) == E \cup {e}

\* The edge e put into E: an edge of the same key gives way to it.
AddEdge(E, e, directed) ==
    {x \in E : EdgeKey(x, directed) # EdgeKey(e, directed)} \cup {e}

RECURSIVE AddEdges(_, _, _)
AddEdges(E, es, directed) ==
    IF es = <<>> THEN E
    ELSE AddEdges(AddEdge(E, Head(es), directed), Tail(es), directed)

\* The graph of an input.
GraphOf(in) ==
    [nodes |-> in.nodes, edges |-> AddEdges({}, in.edges, in.directed),
     directed |-> in.directed, present |-> TRUE]

\* The records of the input that are in order, handed out as a graph.
PartialGraph(in) ==
    [nodes |-> in.nodes,
     edges |-> AddEdges({}, SelectSeq(in.edges, LAMBDA e :
                   /\ e.source \in RawNodeIds(in) /\ e.target \in RawNodeIds(in)
                   /\ e.source # e.target /\ e.weight > 0), in.directed),
     directed |-> in.directed, present |-> TRUE]

\* What a failed construction hands out: nothing.
FailedGraph(in) == NoGraph

\* buildGraph(rawNodes, rawEdges): the graph, or one of the errors the input
\* calls for (which one, when it calls for several, is not laid down).
BuildGraphResults(in) ==
    IF Faults(in) = {} THEN {[status |-> "ok", graph |-> GraphOf(in)]}
    ELSE {[status |-> f, graph |-> FailedGraph(in)] : f \in Faults(in)}

\* A construction about to be asked for, of any raw input.
InitBuild ==
    /\ data = EmptyNetwork
    /\ PredictInit
    /\ snapshots = <<>>
    /\ CompareInit
    /\ MetricsInit
    /\ MoreIdle
    /\ rawInput \in [nodes : RawNodeLists, edges : RawEdgeLists, directed : BOOLEAN]
    /\ buildResult = NotBuilt

\* The call of buildGraph.
BuildGraph ==
    /\ buildResult = NotBuilt
    /\ buildResult' \in BuildGraphResults(rawInput)
    /\ UNCHANGED <<rawInput, data, predictVars, compareVars, metricsVars, moreVars>>

NextBuild == BuildGraph

SpecBuild == InitBuild /\ [][NextBuild]_vars

\* ------------------------------------------------ claims: graph construction
Built == buildResult # NotBuilt

\* C8: buildGraph fails when the input has a duplicate node id, a dangling
\* edge, a self-loop or a weight <= 0, with an error the input calls for, and
\* a failed construction hands out no graph, not even the valid part.
C8_FailsAtomically ==
    Built =>
        /\ buildResult.status = "ok" <=> Faults(rawInput) = {}
        /\ buildResult.status # "ok" =>
               /\ buildResult.status \in Faults(rawInput)
               /\ buildResult.graph = NoGraph
        /\ \A f \in {"DuplicateNodeId", "DanglingEdge", "SelfLoop", "NegativeWeight"} :
               Faults(rawInput) = {f} => buildResult.status = f

\* C8 witness: an input with a valid edge and an edge of weight <= 0 failed
\* with NegativeWeight and no graph.
C8_Witness ==
    /\ Built
    /\ buildResult.status = "NegativeWeight"
    /\ buildResult.graph = NoGraph
    /\ \E i \in 1..Len(rawInput.edges) :
           /\ rawInput.edges[i].weight > 0
           /\ rawInput.edges[i].source # rawInput.edges[i].target
           /\ {rawInput.edges[i].source, rawInput.edges[i].target} \subseteq RawNodeIds(rawInput)

\* The weight the input gives last to the key of its i-th edge.
LastWeight(in, i) ==
    LET same == {k \in 1..Len(in.edges) :
                    EdgeKey(in.edges[k], in.directed) = EdgeKey(in.edges[i], in.directed)}
        last == CHOOSE k \in same : \A j \in same : j <= k
    IN  in.edges[last].weight

\* C9: a graph buildGraph returns has unique node ids, edges between its own
\* nodes only, no self-loop and one edge per key; an edge the input gives
\* more than once is there once, with the weight given last.
C9_GraphInvariants ==
    (Built /\ buildResult.status = "ok") =>
        LET g == buildResult.graph
            ids == {g.nodes[i] : i \in 1..Len(g.nodes)}
        IN  /\ g.present
            /\ \A i, j \in 1..Len(g.nodes) : i # j => g.nodes[i] # g.nodes[j]
            /\ ids = RawNodeIds(rawInput)
            /\ \A e \in g.edges :
                   /\ e.source \in ids /\ e.target \in ids
                   /\ e.source # e.target
                   /\ \A f \in g.edges :
                          EdgeKey(e, g.directed) = EdgeKey(f, g.directed) => e = f
                   /\ \E i \in 1..Len(rawInput.edges) :
                          EdgeKey(rawInput.edges[i], g.directed) = EdgeKey(e, g.directed)
            /\ \A i \in 1..Len(rawInput.edges) :
                   \E e \in g.edges :
                       /\ EdgeKey(e, g.directed) = EdgeKey(rawInput.edges[i], g.directed)
                       /\ e.weight = LastWeight(rawInput, i)

\* C9 witness: the input gave one undirected edge twice, once in each
\* orientation and with two weights, and the graph holds it once.
C9_Witness ==
    /\ Built /\ buildResult.status = "ok"
    /\ ~rawInput.directed
    /\ Len(rawInput.edges) = 2
    /\ rawInput.edges[1].source = rawInput.edges[2].target
    /\ rawInput.edges[1].target = rawInput.edges[2].source
    /\ rawInput.edges[1].weight # rawInput.edges[2].weight
    /\ Cardinality(buildResult.graph.edges) = 1


\* ------------------------------------------------------------- network view
\* Largest number of nodes of the network the view holds.
MaxViewNodes == 2
\* Edge weights of a served network.
ViewWeights == {1, 2}
\* Lengths of the edge array of a served network.
ViewEdgeCounts == {0, 1, 2}
\* Degree limits the user can set in the filter panel.
DegreeLimits == {<<>>, <<1>>}

\* The edge arrays a served network can carry; an endpoint need not be the id
\* of a served node (the network may have fewer than MaxViewNodes nodes).
ViewEdgeLists ==
    UNION { [1..k -> {[source |-> p[1], target |-> p[2], weight |-> w]
                      : p \in UnorderedPairs(MaxViewNodes), w \in ViewWeights}]
            : k \in ViewEdgeCounts }

WithIx(es) ==
    [i \in 1..Len(es) |->
        [ix |-> i, source |-> es[i].source, target |-> es[i].target, weight |-> es[i].weight]]

ViewNetworks ==
    UNION { { [nodes |-> NodeSeq(n, grp), edges |-> WithIx(es)]
              : grp \in [1..n -> GroupIds], es \in ViewEdgeLists }
            : n \in 0..MaxViewNodes }

Range(s) == {s[i] : i \in 1..Len(s)}

\* filterOptions.groups: the distinct groups of the loaded nodes.
GroupsOf(net) == {net.nodes[i].group : i \in 1..Len(net.nodes)}

\* The value of edge.source or edge.target: the id the server sent, or the node
\* object d3's link force put in its place.
Endpoint(e, side, lk) ==
    IF <<e.ix, side>> \in lk
    THEN [kind |-> "node", node |-> [id |-> e[side]]]
    ELSE [kind |-> "id", id |-> e[side]]

\* The endpoint taken as an id whatever it is: a node object matches no id.
EndpointIdUnresolved(p) == IF p.kind = "id" THEN p.id ELSE 0

\* typeof edge.source === 'string' ? edge.source : edge.source.id
EndpointId(p) == IF p.kind = "id" THEN p.id ELSE p.node.id

SourceId(e, lk) == EndpointId(Endpoint(e, "source", lk))
TargetId(e, lk) == EndpointId(Endpoint(e, "target", lk))

\* degreeCounts[id] || 0 over the edges es.
DegreeIn(es, id, lk) ==
    Cardinality({i \in 1..Len(es) : SourceId(es[i], lk) = id})
    + Cardinality({i \in 1..Len(es) : TargetId(es[i], lk) = id})

\* The nodes that pass the degree filters: validNodeIds.
ValidNodeIds(ns, es, f, lk) ==
    {ns[i].id : i \in {j \in 1..Len(ns) :
        LET degree == DegreeIn(es, ns[j].id, lk)
        IN  /\ ~(degree = 0 /\ ~f.showIsolatedNodes)
            /\ ~(f.minNodeDegree # <<>> /\ degree < f.minNodeDegree[1])
            /\ ~(f.maxNodeDegree # <<>> /\ degree > f.maxNodeDegree[1])}}

\* The last step left out: the edges kept are those the weight filter passed.
KeepAllEdges(es, valid, lk) == es

\* Only keep edges where both source and target nodes are valid.
KeepValidEdges(es, valid, lk) ==
    SelectSeq(es, LAMBDA e : SourceId(e, lk) \in valid /\ TargetId(e, lk) \in valid)

\* The apply-filters effect: the network the filter settings f leave of net.
FilterNetwork(net, f, lk) ==
    LET byGroup == IF Cardinality(f.showGroups) < Cardinality(GroupsOf(net))
                   THEN SelectSeq(net.nodes, LAMBDA n : n.group \in f.showGroups)
                   ELSE net.nodes
        byWeight == SelectSeq(net.edges, LAMBDA e : e.weight >= f.minEdgeWeight)
        valid == ValidNodeIds(byGroup, byWeight, f, lk)
    IN  [by |-> "filters",
         nodes |-> SelectSeq(byGroup, LAMBDA n : n.id \in valid),
         edges |-> KeepValidEdges(byWeight, valid, lk)]

\* NetworkFilters.updateFilters(key, value): the settings one control of the
\* panel can turn f into.
FilterUpdates(net, f) ==
    {[f EXCEPT !.showGroups = IF g \in @ THEN @ \ {g} ELSE @ \cup {g}] : g \in GroupsOf(net)}
    \cup {[f EXCEPT !.showGroups = GroupsOf(net)], [f EXCEPT !.showGroups = {}]}
    \cup {[f EXCEPT !.minEdgeWeight = w] : w \in ViewWeights}
    \cup {[f EXCEPT !.maxNodeDegree = d] : d \in DegreeLimits}
    \cup {[f EXCEPT !.minNodeDegree = d] : d \in DegreeLimits}
    \cup {[f EXCEPT !.showIsolatedNodes = ~@]}

RECURSIVE LinkEdges(_, _, _)
\* d3's forceLink.links(edges): in array order, an endpoint that is not yet a
\* node object is looked up among the simulation's nodes and replaced; the
\* lookup throws at the first id that is no node's, and the rest stays as it was.
LinkEdges(es, ids, lk) ==
    IF es = <<>> THEN lk
    ELSE LET e == Head(es)
             src == <<e.ix, "source">> \in lk \/ e.source \in ids
             tgt == <<e.ix, "target">> \in lk \/ e.target \in ids
         IN  IF ~src THEN lk
             ELSE IF ~tgt THEN lk \cup {<<e.ix, "source">>}
             ELSE LinkEdges(Tail(es), ids, lk \cup {<<e.ix, "source">>, <<e.ix, "target">>})

\* The network as handlePredictLinks reads it: the edges by their endpoint ids.
ResolvedNetwork(net, lk) ==
    [nodes |-> net.nodes,
     edges |-> {[source |-> SourceId(e, lk), target |-> TargetId(e, lk)] : e \in Range(net.edges)}]

\* The community summary fetchAdvancedMetrics falls back to: count 5,
\* distribution [8, 6, 5, 4, 7].
FallbackCommunities == [kind |-> "data", count |-> 5, distribution |-> <<8, 6, 5, 4, 7>>]

\* The network page with a network loaded: fetchData set data and filteredData
\* to the same object, the filter options were taken from it.
InitView ==
    /\ data = EmptyNetwork
    /\ PredictInit
    /\ snapshots = <<>>
    /\ CompareInit
    /\ MetricsInit
    /\ BuildIdle
    /\ viewData \in ViewNetworks
    /\ filters = [showGroups |-> GroupsOf(viewData), minEdgeWeight |-> 1,
                  maxNodeDegree |-> <<>>, minNodeDegree |-> <<>>,
                  showIsolatedNodes |-> TRUE]
    /\ filteredData = [by |-> "load", nodes |-> viewData.nodes, edges |-> viewData.edges]
    /\ linked = {}
    /\ placed = FALSE
    /\ advancedMetrics = NoMetrics
    /\ EngineIdle
    /\ UploadIdle
    /\ DetectIdle
    /\ LateIdle

\* The apply-filters effect after the load.
ApplyFilters ==
    /\ filteredData.by = "load"
    /\ filteredData' = FilterNetwork(viewData, filters, linked)
    /\ UNCHANGED <<viewData, filters, linked, placed, advancedMetrics, predictVars, ViewFrame>>

\* handleFiltersChange, and the apply-filters effect it triggers.
HandleFiltersChange ==
    /\ filteredData.by = "filters"
    /\ \E f \in FilterUpdates(viewData, filters) :
           /\ f # filters
           /\ filters' = f
           /\ filteredData' = FilterNetwork(viewData, f, linked)
    /\ UNCHANGED <<viewData, linked, placed, advancedMetrics, predictVars, ViewFrame>>

\* The visualization effect on filteredData: the layout writes coordinates on
\* the node objects and the link force resolves the endpoints of the edge
\* objects; both arrays hold the objects of data.
Visualize ==
    /\ placed' = (placed \/ filteredData.nodes # <<>>)
    /\ linked' = LinkEdges(filteredData.edges,
                           {n.id : n \in Range(filteredData.nodes)}, linked)
    /\ <<placed', linked'>> # <<placed, linked>>
    /\ UNCHANGED <<viewData, filters, filteredData, advancedMetrics, predictVars, ViewFrame>>

\* handlePredictLinks, the local fallback on the network of the view.
PredictLocalView ==
    /\ predPath = "none"
    /\ Len(viewData.nodes) > 0
    /\ LET g == ResolvedNetwork(viewData, linked)
       IN  \E pr \in [1..Len(PossiblePairs(g)) -> LocalProbs] :
               predictedLinks' = LocalPredictions(g, pr)
    /\ showPredictions' = TRUE
    /\ predictionError' = "null"
    /\ predPath' = "local"
    /\ UNCHANGED <<viewVars, ViewFrame>>

\* fetchAdvancedMetrics: the community summary goes to networkInfo.
FetchAdvancedMetrics ==
    /\ advancedMetrics = NoMetrics
    /\ advancedMetrics' = FallbackCommunities
    /\ UNCHANGED <<viewData, filters, filteredData, linked, placed, predictVars, ViewFrame>>

NextView ==
    \/ ApplyFilters
    \/ HandleFiltersChange
    \/ Visualize
    \/ PredictLocalView
    \/ FetchAdvancedMetrics

SpecView == InitView /\ [][NextView]_vars

\* ---------------------------------------------------- claims: network view
\* The network as the server sent it, no endpoint resolved.
PlainNetwork(net) ==
    [nodes |-> net.nodes,
     edges |-> {[source |-> e.source, target |-> e.target] : e \in Range(net.edges)}]

FilteredNodeIds == {n.id : n \in Range(filteredData.nodes)}

\* What the analyses of the view produce: the filtered network of the filter
\* settings, the prediction list, the community summary of the advanced metrics.
AnalysisResults == <<filters, filteredData, predictVars, advancedMetrics>>

C20_FilteredIsSubgraph ==
    filteredData.by = "filters" =>
        /\ Range(filteredData.nodes) \subseteq Range(viewData.nodes)
        /\ Range(filteredData.edges) \subseteq Range(viewData.edges)
        /\ \A e \in Range(filteredData.edges) :
               e.source \in FilteredNodeIds /\ e.target \in FilteredNodeIds

\* The edges of net at node id, by their endpoint ids.
EdgesAt(net, id) == {e \in Range(net.edges) : e.source = id \/ e.target = id}

\* C25: while showIsolatedNodes is off, the network the filters produce has no
\* isolated node: every node it keeps is an endpoint of an edge it keeps.
C25_NoIsolatedNodes ==
    (filteredData.by = "filters" /\ ~filters.showIsolatedNodes) =>
        \A n \in Range(filteredData.nodes) : EdgesAt(filteredData, n.id) # {}

\* C20 witness: an edge passed the weight filter and was dropped because a node
\* it joins was filtered out, while another edge stayed.
C20_Witness ==
    /\ filteredData.by = "filters"
    /\ \E e \in Range(viewData.edges) \ Range(filteredData.edges) :
           /\ e.weight >= filters.minEdgeWeight
           /\ {e.source, e.target} \subseteq {n.id : n \in Range(viewData.nodes)}
           /\ ~({e.source, e.target} \subseteq FilteredNodeIds)

\* -------------------------------------------- analysis service: metrics, links
\* Most steps of the power iteration.
MaxPowerSteps == 3
\* The tolerance of the power iteration, in hundredths.
TolerancePercent == 1

Neighbors(g, a) == {b \in NodeIds(g) : Adjacent(g, a, b)}

RECURSIVE SumOver(_, _)
\* The sum of f over the finite set S.
SumOver(f, S) ==
    IF S = {} THEN 0
    ELSE LET x == CHOOSE y \in S : TRUE IN f[x] + SumOver(f, S \ {x})

\* One step of the power iteration: the adjacency matrix applied to x.
PowerStep(g, x) == [a \in NodeIds(g) |-> SumOver(x, Neighbors(g, a))]

\* x and y, each scaled to sum 1, differ by at most the tolerance in total.
WithinTolerance(g, x, y) ==
    LET sx == SumOver(x, NodeIds(g))
        sy == SumOver(y, NodeIds(g))
        diff == [a \in NodeIds(g) |-> Abs(y[a] * sx - x[a] * sy)]
    IN  SumOver(diff, NodeIds(g)) * 100 <= TolerancePercent * sx * sy

RECURSIVE PowerIteration(_, _, _)
\* Eigenvector centrality: the iteration from x, steps already taken. A vector
\* that vanishes (no edge) is the neutral result; the step bound ends the
\* iteration with NotConverged.
PowerIteration(g, x, steps) ==
    LET y == PowerStep(g, x)
    IN  IF SumOver(y, NodeIds(g)) = 0
        THEN [status |-> "ok", value |-> [a \in NodeIds(g) |-> 0], total |-> 1]
        ELSE IF WithinTolerance(g, x, y)
        THEN [status |-> "ok", value |-> y, total |-> SumOver(y, NodeIds(g))]
        ELSE IF steps + 1 >= MaxPowerSteps
        THEN [status |-> "NotConverged"]
        ELSE PowerIteration(g, y, steps + 1)

EigenvectorCentrality(g) ==
    IF NodeIds(g) = {} THEN [status |-> "ok", value |-> <<>>, total |-> 1]
    ELSE PowerIteration(g, [a \in NodeIds(g) |-> 1], 0)

\* Degree centrality: the raw degree of every node.
DegreeCentrality(g) ==
    [status |-> "ok", value |-> [a \in NodeIds(g) |-> Cardinality(Neighbors(g, a))]]

\* The metrics of one computeMetrics call, each with its own status.
MetricsOf(g) ==
    [density |-> [status |-> "ok", value |-> ServerDensity(NodeCount(g), EdgeCount(g))],
     averageDegree |-> [status |-> "ok",
                        value |-> ServerAverageDegree(NodeCount(g), EdgeCount(g))],
     degree |-> DegreeCentrality(g),
     eigenvector |-> EigenvectorCentrality(g)]

MetricNames == {"density", "averageDegree", "degree", "eigenvector"}

\* The failure of one metric made the failure of the call.
BatchStatusFatal(metrics) ==
    IF \E m \in MetricNames : metrics[m].status # "ok" THEN "failed" ELSE "ok"

\* The status of the call: a metric's failure stays with the metric.
BatchStatus(metrics) == "ok"

\* computeMetrics(graph) -> MetricsResult
ComputeMetricsResult(g) ==
    LET metrics == MetricsOf(g)
        status == BatchStatus(metrics)
    IN  [algorithm |-> "metrics", status |-> status,
         output |-> IF status = "ok" THEN metrics ELSE [m \in MetricNames |-> [status |-> "none"]]]

\* The analysis service holding a graph, nothing asked yet.
InitEngine ==
    /\ data \in Networks
    /\ PredictInit
    /\ snapshots = <<>>
    /\ CompareInit
    /\ MetricsInit
    /\ BuildIdle
    /\ ViewIdle
    /\ EngineIdle
    /\ UploadIdle
    /\ DetectIdle
    /\ LateIdle

\* computeMetrics(graph)
ComputeMetrics ==
    /\ analysis' = ComputeMetricsResult(data)
    /\ UNCHANGED EngineFrame

\* predictLinks(graph, k)
EnginePredictLinks ==
    /\ \E k \in 0..TopK :
           analysis' = [algorithm |-> "predictLinks", status |-> "ok", k |-> k,
                        output |-> ServerPredictLinks(data, k)]
    /\ UNCHANGED EngineFrame

NextEngine ==
    \/ ComputeMetrics
    \/ EnginePredictLinks

SpecEngine == InitEngine /\ [][NextEngine]_vars

\* ------------------------------------- claims: analysis service, metrics, links
\* C16: when eigenvector centrality ends with NotConverged, the failure is
\* that metric's alone: the call succeeds and density, average degree and
\* degree centrality are returned with their values.
C16_NotConvergedIsLocal ==
    (analysis.algorithm = "metrics" /\ analysis.status = "ok"
        => analysis.output.eigenvector.status \in {"ok", "NotConverged"})
    /\ (analysis.algorithm = "metrics" /\ EigenvectorCentrality(data).status = "NotConverged"
        => /\ analysis.status = "ok"
           /\ analysis.output.eigenvector.status = "NotConverged"
           /\ \A m \in MetricNames \ {"eigenvector"} : analysis.output[m].status = "ok"
           /\ analysis.output.density.value.num * NodeCount(data) * (NodeCount(data) - 1)
                  = 2 * EdgeCount(data) * analysis.output.density.value.den
           /\ \A a \in NodeIds(data) :
                  analysis.output.degree.value[a] = Cardinality({b \in NodeIds(data) : Adjacent(data, a, b)}))

\* C16 witness: the metrics of the path 1-2-3, on which the iteration alternates
\* between two vectors.
C16_Witness ==
    /\ analysis.algorithm = "metrics"
    /\ analysis.status = "ok"
    /\ analysis.output.eigenvector.status = "NotConverged"

\* The graph of the scenario: nodes A, B, C as 1, 2, 3 and the edges A-B, B-C.
IsScenarioGraph(g) ==
    /\ NodeIds(g) = {1, 2, 3}
    /\ Cardinality(g.edges) = 2
    /\ Adjacent(g, 1, 2) /\ Adjacent(g, 2, 3)

\* C18: every returned pair is scored with the number of nodes adjacent to
\* both of its endpoints; on the graph A-B, B-C predictLinks(graph, 1) is the
\* single pair {A, C} with score 1 and the density is 2/3.
C18_CommonNeighborsScenario ==
    /\ analysis.algorithm = "predictLinks" =>
           \A i \in 1..Len(analysis.output) :
               LET e == analysis.output[i]
               IN  e.probability =
                       Cardinality({c \in NodeIds(data) :
                                       Adjacent(data, c, e.source) /\ Adjacent(data, c, e.target)})
    /\ (analysis.algorithm = "predictLinks" /\ analysis.k = 1 /\ IsScenarioGraph(data)) =>
           analysis.output = <<[source |-> 1, target |-> 3, probability |-> 1]>>
    /\ (analysis.algorithm = "metrics" /\ IsScenarioGraph(data)) =>
           /\ analysis.output.density.status = "ok"
           /\ analysis.output.density.value.num * 3 = analysis.output.density.value.den * 2

\* C18 witness: predictLinks(graph, 1) has answered on the scenario's graph.
C18_Witness ==
    /\ analysis.algorithm = "predictLinks"
    /\ analysis.k = 1
    /\ IsScenarioGraph(data)
    /\ Len(analysis.output) = 1

\* ------------------------------------------------------------------ data upload
\* What the file dialog or a drop hands over: no file (the empty name), or a
\* file, by the parts of its name between the dots.
FileChoices ==
    {<<>>, <<"data", "csv">>, <<"data", "CSV">>, <<"data", "json">>, <<"net", "graphml">>,
     <<"notes", "txt">>, <<"README">>, <<"csv">>}
ValidFormats == {"csv", "json", "graphml"}
CheckboxNames == {"anonymize", "skipFirstRow"}
TextNames == {"nodeIdField", "weightField"}
TextValues == {"uid"}

\* String.prototype.toLowerCase on the names above.
ToLowerCase(part) == IF part = "CSV" THEN "csv" ELSE IF part = "README" THEN "readme" ELSE part

\* file.name.split('.').pop()?.toLowerCase() || ''
FileExt(name) == IF name = <<>> THEN "" ELSE ToLowerCase(name[Len(name)])

\* An upload page just opened.
InitUpload ==
    /\ data = EmptyNetwork
    /\ PredictInit
    /\ snapshots = <<>>
    /\ CompareInit
    /\ MetricsInit
    /\ BuildIdle
    /\ ViewIdle
    /\ EngineIdle
    /\ UploadIdle
    /\ DetectIdle
    /\ LateIdle

\* handleFileChange, also reached through handleDrop.
HandleFileChange(name) ==
    /\ IF name = <<>>
       THEN /\ fileInfo' = NoFile
            /\ uploadError' = "null"
       ELSE IF FileExt(name) \notin ValidFormats
       THEN /\ fileInfo' = NoFile
            /\ uploadError' = "invalid file format"
       ELSE /\ fileInfo' = [format |-> FileExt(name), isValid |-> TRUE, name |-> name]
            /\ uploadError' = "null"
    /\ uploadResult' = "null"
    /\ UNCHANGED <<importOptions, isLoading, lastRequest, UploadFrame>>


\* handleRemoveFile: the button is shown with a selected file.
HandleRemoveFile ==
    /\ fileInfo # NoFile
    /\ fileInfo' = NoFile
    /\ uploadError' = "null"
    /\ uploadResult' = "null"
    /\ UNCHANGED <<importOptions, isLoading, lastRequest, UploadFrame>>

\* handleOptionChange: a checkbox sets its option to checked, any other input
\* to its value. The form is rendered with a selected file.
HandleOptionChange ==
    /\ fileInfo # NoFile
    /\ \/ \E name \in CheckboxNames, checked \in BOOLEAN :
              importOptions' = [importOptions EXCEPT ![name] = checked]
       \/ \E name \in TextNames, value \in TextValues :
              importOptions' = [importOptions EXCEPT ![name] = value]
    /\ UNCHANGED <<fileInfo, isLoading, uploadError, uploadResult, lastRequest, UploadFrame>>

\* The form data of a submit: the file and every import option as it stands.
FormData(file, options) ==
    [sent |-> TRUE, file |-> file.name,
     nodeIdField |-> options.nodeIdField, weightField |-> options.weightField,
     anonymize |-> options.anonymize, skipFirstRow |-> options.skipFirstRow]

\* handleSubmit up to the POST; the submit button is disabled while loading.
HandleSubmit ==
    /\ fileInfo # NoFile
    /\ ~isLoading
    /\ IF ~fileInfo.isValid
       THEN /\ uploadError' = "select a valid file"
            /\ UNCHANGED <<isLoading, uploadResult, lastRequest>>
       ELSE /\ isLoading' = TRUE
            /\ uploadError' = "null"
            /\ uploadResult' = "null"
            /\ lastRequest' = FormData(fileInfo, importOptions)
    /\ UNCHANGED <<fileInfo, importOptions, UploadFrame>>

\* handleSubmit after the POST: the response, or the catch branch.
UploadAnswered ==
    /\ isLoading
    /\ \/ /\ uploadResult' = "processed"
          /\ UNCHANGED uploadError
       \/ /\ uploadError' = "upload failed"
          /\ UNCHANGED uploadResult
    /\ isLoading' = FALSE
    /\ UNCHANGED <<fileInfo, importOptions, lastRequest, UploadFrame>>

NextUpload ==
    \/ \E name \in FileChoices : HandleFileChange(name)
    \/ HandleRemoveFile
    \/ HandleOptionChange
    \/ HandleSubmit
    \/ UploadAnswered

SpecUpload == InitUpload /\ [][NextUpload]_vars

\* ---------------------------------------------------------- claims: data upload
\* C15: every upload request the application sends carries anonymize = true,
\* whatever was done with the import options before the submit.
C15_UploadsAnonymized ==
    lastRequest # NoRequest => lastRequest.anonymize = TRUE

\* ---------------------------------------------------------- community detector
\* Most nodes of a graph handed to the detector.
MaxDetectNodes == 3
\* Label propagation's step cap.
StepCap == 3
\* The divisive algorithm's bound on its iterations.
MaxIterations == 2
\* The target community counts asked of the divisive algorithm.
TargetCounts == {2, 3}

\* The undirected edges of g, each as the set of its two endpoints.
Links(g) == {{e.source, e.target} : e \in g.edges}

NeighborsIn(E, a) == {b \in UNION E : b # a /\ {a, b} \in E}

\* Every node in a community of its own, named by the node's id.
OwnLabels(V) == [a \in V |-> a]

LabelsUsed(labels) == {labels[a] : a \in DOMAIN labels}

\* Labels renumbered without gaps from 1 upwards.
DenseFromOne(labels) ==
    [a \in DOMAIN labels |-> Cardinality({l \in LabelsUsed(labels) : l <= labels[a]})]

\* Community ids are dense integers starting at 0.
Dense(labels) ==
    [a \in DOMAIN labels |-> Cardinality({l \in LabelsUsed(labels) : l < labels[a]})]

\* The sum of the natural numbers f[x], x in S.
Total(f, S) == Cardinality(UNION {{x} \X (1..f[x]) : x \in S})

\* The sum of the degrees of the nodes of community c.
DegreeSum(E, labels, c) == Cardinality({p \in E \X DOMAIN labels : p[2] \in p[1] /\ labels[p[2]] = c})

\* Modularity times 4m^2: 4m times the edges inside communities less the
\* squares of the communities' degree sums.
ModularityNum(E, labels) ==
    4 * Cardinality(E) * Cardinality({e \in E : \A a \in e : \A b \in e : labels[a] = labels[b]})
        - Total([c \in LabelsUsed(labels) |-> DegreeSum(E, labels, c) * DegreeSum(E, labels, c)],
                LabelsUsed(labels))

\* Partition = {assignment, modularity, communityCount}
PartitionOf(algorithm, g, labels) ==
    LET dense == Dense(labels)
        m == Cardinality(Links(g))
    IN  [algorithm |-> algorithm,
         assignment |-> {<<a, dense[a]>> : a \in DOMAIN labels},
         communityCount |-> Cardinality(LabelsUsed(labels)),
         modularity |-> IF m = 0 THEN Ratio(0, 1)
                        ELSE Ratio(ModularityNum(Links(g), labels), 4 * m * m)]

\* --- label propagation
LabelCount(E, labels, a, l) == Cardinality({b \in NeighborsIn(E, a) : labels[b] = l})

\* The majority label among a's neighbours, the lowest of several.
MajorityLabel(E, labels, a) ==
    IF NeighborsIn(E, a) = {} THEN labels[a]
    ELSE LET cand == {labels[b] : b \in NeighborsIn(E, a)}
             best == {l \in cand : \A k \in cand :
                         LabelCount(E, labels, a, l) >= LabelCount(E, labels, a, k)}
         IN  CHOOSE l \in best : \A k \in best : l <= k

\* One iteration: each node adopts the majority label among its neighbours.
PropagationSweep(g, labels) == [a \in NodeIds(g) |-> MajorityLabel(Links(g), labels, a)]

CapIgnored(steps) == FALSE

\* The step cap is reached.
CapReached(steps) == steps >= StepCap

\* --- Louvain
\* The labels after every node of unit u has moved to community l.
MoveUnit(units, labels, u, l) ==
    [a \in DOMAIN labels |-> IF units[a] = u THEN l ELSE labels[a]]

\* The communities unit u touches other than its own.
NeighborLabels(E, units, labels, u) ==
    {labels[b] : b \in UNION {NeighborsIn(E, a) : a \in {x \in DOMAIN units : units[x] = u}}}
        \ {labels[a] : a \in {x \in DOMAIN units : units[x] = u}}

\* The moves that gain modularity: unit, target community, modularity after.
GainingMoves(E, units, labels) ==
    {m \in UNION {{<<u, l, ModularityNum(E, MoveUnit(units, labels, u, l))>> :
                      l \in NeighborLabels(E, units, labels, u)} : u \in LabelsUsed(units)} :
        m[3] > ModularityNum(E, labels)}

\* Units are visited in ascending order; the move taken is the first unit's
\* move of largest gain, towards the lowest community of several.
BestMove(M) ==
    CHOOSE m \in M : \A k \in M :
        \/ m[1] < k[1]
        \/ m[1] = k[1] /\ m[3] > k[3]
        \/ m[1] = k[1] /\ m[3] = k[3] /\ m[2] <= k[2]

\* --- divisive
RECURSIVE Ball(_, _, _)
\* The nodes within k edges of s.
Ball(E, s, k) ==
    IF k = 0 THEN {s}
    ELSE UNION {{a} \cup NeighborsIn(E, a) : a \in Ball(E, s, k - 1)}

\* Connected components, each named by its smallest node.
ComponentLabels(V, E) ==
    [a \in V |-> CHOOSE x \in Ball(E, a, Cardinality(V)) :
                     \A y \in Ball(E, a, Cardinality(V)) : x <= y]

\* The length of a shortest path from s to t, -1 when there is none.
Dist(V, E, s, t) ==
    IF t \notin Ball(E, s, Cardinality(V)) THEN -1
    ELSE CHOOSE k \in 0..Cardinality(V) :
            t \in Ball(E, s, k) /\ (k = 0 \/ t \notin Ball(E, s, k - 1))

RECURSIVE PathCount(_, _, _, _)
\* The number of shortest paths from s to t.
PathCount(V, E, s, t) ==
    IF s = t THEN 1
    ELSE Total([u \in V |->
                   IF u # t /\ {u, t} \in E /\ Dist(V, E, s, u) >= 0
                          /\ Dist(V, E, s, u) = Dist(V, E, s, t) - 1
                   THEN PathCount(V, E, s, u) ELSE 0], V)

\* For every connected pair s < t: s, t, their distance, their shortest paths.
PathTable(V, E) ==
    {<<p[1], p[2], Dist(V, E, p[1], p[2]), PathCount(V, E, p[1], p[2])>> :
        p \in {q \in V \X V : q[1] < q[2] /\ Dist(V, E, q[1], q[2]) > 0}}

DistIn(T, a, b) ==
    IF a = b THEN 0
    ELSE IF \E t \in T : {t[1], t[2]} = {a, b}
    THEN (CHOOSE t \in T : {t[1], t[2]} = {a, b})[3]
    ELSE -1

CountIn(T, a, b) ==
    IF a = b THEN 1 ELSE (CHOOSE t \in T : {t[1], t[2]} = {a, b})[4]

\* The shortest paths from s to t that run through the edge from u to v.
PathsThrough(T, s, t, u, v) ==
    IF DistIn(T, s, u) >= 0 /\ DistIn(T, v, t) >= 0
          /\ DistIn(T, s, u) + 1 + DistIn(T, v, t) = DistIn(T, s, t)
    THEN CountIn(T, s, u) * CountIn(T, v, t) ELSE 0

RECURSIVE ProductOf(_)
\* The product of a set of numbers.
ProductOf(S) ==
    IF S = {} THEN 1
    ELSE (CHOOSE x \in S : \A y \in S : x <= y)
             * ProductOf(S \ {CHOOSE x \in S : \A y \in S : x <= y})

\* Edge betweenness: over the connected pairs, the share of their shortest
\* paths through the edge; scaled by a common multiple of the path counts.
EdgeBetweenness(T, e) ==
    Cardinality(UNION {
        {q} \X (1..(PathsThrough(T, q[1][1], q[1][2], q[2], q[3])
                        * (ProductOf({x[4] : x \in T}) \div q[1][4])))
        : q \in {r \in T \X e \X e : r[2] # r[3]}})

\* The edge of highest betweenness, the first in order of endpoints of several.
HighestIn(T, E) ==
    CHOOSE e \in E : \A f \in E :
        \/ EdgeBetweenness(T, e) > EdgeBetweenness(T, f)
        \/ /\ EdgeBetweenness(T, e) = EdgeBetweenness(T, f)
           /\ \/ e = f
              \/ PairLess(<<CHOOSE x \in e : \A y \in e : x <= y, CHOOSE x \in e : \A y \in e : x >= y>>,
                          <<CHOOSE x \in f : \A y \in f : x <= y, CHOOSE x \in f : \A y \in f : x >= y>>)

HighestBetweennessEdge(V, E) ==
    CHOOSE e \in E : \E T \in {PathTable(V, E)} : e = HighestIn(T, E)

\* --- detect(graph, algorithm, params)
Running(algorithm, labels, units, remaining, target) ==
    [algorithm |-> algorithm, phase |-> "running", labels |-> labels, units |-> units,
     moved |-> FALSE, remaining |-> remaining, steps |-> 0, target |-> target]

\* The graphs handed to the detector: ids 1..n, any set of undirected edges.
DetectGraphs ==
    UNION { { [nodes |-> NodeSeq(n, [i \in 1..n |-> 1]),
               edges |-> {[source |-> p[1], target |-> p[2]] : p \in E}]
              : E \in SUBSET UnorderedPairs(n) }
            : n \in 0..MaxDetectNodes }

\* The community detector holding a graph, nothing asked yet.
InitDetect ==
    /\ data \in DetectGraphs
    /\ PredictInit
    /\ snapshots = <<>>
    /\ CompareInit
    /\ MetricsInit
    /\ BuildIdle
    /\ ViewIdle
    /\ EngineIdle
    /\ UploadIdle
    /\ DetectIdle
    /\ LateIdle

\* detect is called: every node starts in a community of its own.
StartDetect ==
    /\ run.phase = "idle"
    /\ \/ \E algorithm \in {"louvain", "label_propagation"} :
              run' = Running(algorithm, OwnLabels(NodeIds(data)), OwnLabels(NodeIds(data)),
                             Links(data), 0)
       \/ \E target \in TargetCounts :
              run' = Running("divisive", OwnLabels(NodeIds(data)), OwnLabels(NodeIds(data)),
                             Links(data), target)
    /\ UNCHANGED <<partition, DetectFrame>>

\* Label propagation: one iteration, or the end at convergence or at the cap.
PropagateLabels ==
    /\ run.algorithm = "label_propagation" /\ run.phase = "running"
    /\ LET next == PropagationSweep(data, run.labels)
       IN  IF next = run.labels \/ CapReached(run.steps)
           THEN /\ run' = [run EXCEPT !.phase = "done"]
                /\ partition' = PartitionOf("label_propagation", data, run.labels)
           ELSE /\ run' = [run EXCEPT !.labels = next, !.steps = @ + 1]
                /\ UNCHANGED partition
    /\ UNCHANGED DetectFrame

\* Louvain: the next local move; with none left, coarsening if the level
\* moved anything, the end otherwise.
LouvainStep ==
    /\ run.algorithm = "louvain" /\ run.phase = "running"
    /\ \E M \in {GainingMoves(Links(data), run.units, run.labels)} :
           IF M # {}
           THEN \E m \in {BestMove(M)} :
                    /\ run' = [run EXCEPT
                                  !.labels = MoveUnit(run.units, run.labels, m[1], m[2]),
                                  !.moved = TRUE, !.steps = @ + 1]
                    /\ UNCHANGED partition
           ELSE IF run.moved
           THEN /\ run' = [run EXCEPT !.units = run.labels, !.moved = FALSE]
                /\ UNCHANGED partition
           ELSE /\ run' = [run EXCEPT !.phase = "done"]
                /\ partition' = PartitionOf("louvain", data, run.labels)
    /\ UNCHANGED DetectFrame

\* Divisive: the edge of highest betweenness goes and the components are
\* recomputed, until the target count, the last edge or the iteration bound.
DivisiveStep ==
    /\ run.algorithm = "divisive" /\ run.phase = "running"
    /\ LET V == NodeIds(data)
           labels == ComponentLabels(V, run.remaining)
       IN  IF \/ Cardinality(LabelsUsed(labels)) >= run.target
              \/ run.remaining = {}
              \/ run.steps >= MaxIterations
           THEN /\ run' = [run EXCEPT !.phase = "done", !.labels = labels]
                /\ partition' = PartitionOf("divisive", data, labels)
           ELSE /\ run' = [run EXCEPT
                              !.remaining = @ \ {HighestBetweennessEdge(V, run.remaining)},
                              !.labels = labels, !.steps = @ + 1]
                /\ UNCHANGED partition
    /\ UNCHANGED DetectFrame

\* The steps of an invocation under way.
DetectStep ==
    \/ PropagateLabels
    \/ LouvainStep
    \/ DivisiveStep

NextDetect ==
    \/ StartDetect
    \/ DetectStep

\* The call is synchronous: once started, the detector keeps taking its steps.
SpecDetect == InitDetect /\ [][NextDetect]_vars /\ WF_vars(DetectStep)

\* --------------------------------------------------- claims: community detector
\* Louvain or label propagation has returned a Partition.
Returned == partition.algorithm \in {"louvain", "label_propagation"}

\* Every node of the graph is assigned exactly one community, no other id is.
AssignsEveryNodeOnce ==
    /\ \A a \in NodeIds(data) : Cardinality({p \in partition.assignment : p[1] = a}) = 1
    /\ \A p \in partition.assignment : p[1] \in NodeIds(data)

\* The community ids used are exactly 0 .. communityCount-1.
IdsAreDense == {p[2] : p \in partition.assignment} = 0..(partition.communityCount - 1)

C17_DetectionTerminates ==
    /\ [](run.algorithm = "label_propagation" => run.steps <= StepCap)
    /\ [](run.algorithm = "divisive" => run.steps <= MaxIterations)
    /\ (run.phase = "running") ~> (run.phase = "done")

\* C17 witness: label propagation ended by its step cap on labels that still
\* change, or the divisive algorithm ended by its bound short of its target.
C17_Witness ==
    /\ run.phase = "done"
    /\ \/ /\ run.algorithm = "label_propagation"
          /\ run.steps = StepCap
          /\ PropagationSweep(data, run.labels) # run.labels
       \/ /\ run.algorithm = "divisive"
          /\ run.steps = MaxIterations
          /\ run.remaining # {}
          /\ Cardinality(LabelsUsed(run.labels)) < run.target

\* The extension of a file name: what follows its last dot, if it has a dot.
HasExtensionIn(name, exts) ==
    /\ Len(name) >= 2
    /\ \E e \in exts : name[Len(name)] \in {e, IF e = "csv" THEN "CSV" ELSE e}

\* C21: a file is selected only if its extension, whatever its case, is csv,
\* json or graphml; choosing any other file sets the error and leaves no file
\* selected; a submit without a valid file sets the error and sends nothing.
C21_OnlyValidExtensions ==
    /\ [](fileInfo # NoFile => HasExtensionIn(fileInfo.name, {"csv", "json", "graphml"}))
    /\ [](lastRequest # NoRequest => HasExtensionIn(lastRequest.file, {"csv", "json", "graphml"}))
    /\ [][\A name \in FileChoices :
             (HandleFileChange(name) /\ name # <<>>
                 /\ ~HasExtensionIn(name, {"csv", "json", "graphml"}))
                => (fileInfo' = NoFile /\ uploadError' # "null")]_vars
    /\ [][(HandleSubmit /\ (fileInfo = NoFile \/ ~fileInfo.isValid))
             => (uploadError' # "null" /\ UNCHANGED <<lastRequest, isLoading>>)]_vars

\* --------------------------------------------------------- login and routing
\* Most login or sign-up requests in flight at once.
MaxAuthRequests == 2

ProtectedPaths == {"/", "/network", "/analysis", "/comparison", "/upload", "/settings"}

\* What localStorage holds when the page is opened: nothing, or the flags a
\* login of an earlier page session stored.
StoredFlags ==
    {NoFlags} \cup {[isLoggedIn |-> "true", isAdmin |-> a] : a \in {"true", "false"}}

\* The <Route> elements of one render of App.
RoutesOf(loggedIn, storage) ==
    IF ~loggedIn THEN {"/login", "/signup"}
    ELSE ProtectedPaths \cup (IF storage.isAdmin = "true" THEN {"/users"} ELSE {})

\* setIsLoggedIn(value): App renders again when the state changes, and not
\* when it is set to the value it has.
RoutesAfter(value, storage) ==
    IF value # isLoggedIn THEN RoutesOf(value, storage) ELSE routes

\* Where the router ends up at path: an unregistered path is redirected to
\* /login while logged out, and shows NotFound in place while logged in.
Resolved(path, registered) ==
    IF path \in registered \/ "/login" \notin registered THEN path ELSE "/login"

AllPaths == ProtectedPaths \cup {"/users", "/login", "/signup"}

\* App is mounted: both states are read from localStorage.
InitAuth ==
    /\ data = EmptyNetwork
    /\ PredictInit
    /\ snapshots = <<>>
    /\ CompareInit
    /\ MetricsInit
    /\ BuildIdle
    /\ ViewIdle /\ EngineIdle /\ UploadIdle /\ DetectIdle
    /\ UsersIdle /\ PanelIdle /\ LayoutIdle /\ TimelineIdle
    /\ localStorage \in StoredFlags
    /\ isLoggedIn = (localStorage.isLoggedIn = "true")
    /\ isAdmin = (localStorage.isAdmin = "true")
    /\ routes = RoutesOf(isLoggedIn, localStorage)
    /\ loginError = ""
    /\ authRequests = <<>>
    /\ location \in {Resolved(path, routes) : path \in AllPaths}

\* Login.handleSubmit up to the fetch; the form is shown at /login or /signup.
SubmitLogin(mode, passwordsMatch) ==
    /\ location = "/" \o mode
    /\ location \in routes
    /\ IF mode = "signup" /\ ~passwordsMatch
       THEN /\ loginError' = "Passwords do not match!"
            /\ UNCHANGED authRequests
       ELSE /\ Len(authRequests) < MaxAuthRequests
            /\ loginError' = ""
            /\ authRequests' = Append(authRequests, mode)
    /\ UNCHANGED <<isLoggedIn, isAdmin, localStorage, routes, location, AuthFrame>>

\* The requests in flight without the i-th.
Without(reqs, i) == [j \in 1..(Len(reqs) - 1) |-> IF j < i THEN reqs[j] ELSE reqs[j + 1]]

\* Login.handleSubmit after the fetch: the response is OK and carries is_admin.
LoginSucceeds(i, admin) ==
    /\ i \in 1..Len(authRequests)
    /\ authRequests' = Without(authRequests, i)
    /\ localStorage' = [isLoggedIn |-> "true", isAdmin |-> IF admin THEN "true" ELSE "false"]
    /\ isLoggedIn' = TRUE
    /\ routes' = RoutesAfter(TRUE, localStorage')
    /\ UNCHANGED <<isAdmin, loginError, location, AuthFrame>>

\* Login.handleSubmit after the fetch: the response is not OK, or fetch threw.
LoginFails(i) ==
    /\ i \in 1..Len(authRequests)
    /\ authRequests' = Without(authRequests, i)
    /\ loginError' = "An error occurred"
    /\ UNCHANGED <<isLoggedIn, isAdmin, localStorage, routes, location, AuthFrame>>

\* Header.handleLogout; the header is rendered while logged in.
HandleLogout ==
    /\ isLoggedIn
    /\ localStorage' = NoFlags
    /\ isLoggedIn' = FALSE
    /\ routes' = RoutesAfter(FALSE, localStorage')
    /\ location' = "/login"
    /\ UNCHANGED <<isAdmin, loginError, authRequests, AuthFrame>>

\* A link of the header or the sidebar, the header's user-list button (shown
\* to isAdmin), or the link between the login and the sign-up form.
Navigate(path) ==
    /\ \/ isLoggedIn /\ path \in ProtectedPaths
       \/ isLoggedIn /\ isAdmin /\ path = "/users"
       \/ ~isLoggedIn /\ path \in {"/login", "/signup"}
    /\ location' = Resolved(path, routes)
    /\ location' # location
    /\ UNCHANGED <<isLoggedIn, isAdmin, localStorage, routes, loginError, authRequests, AuthFrame>>

\* The page is loaded at a path: App is mounted anew, requests in flight are lost.
ReloadPage(path) ==
    /\ isLoggedIn' = (localStorage.isLoggedIn = "true")
    /\ isAdmin' = (localStorage.isAdmin = "true")
    /\ routes' = RoutesOf(isLoggedIn', localStorage)
    /\ location' = Resolved(path, routes')
    /\ loginError' = ""
    /\ authRequests' = <<>>
    /\ UNCHANGED <<localStorage, AuthFrame>>

NextAuth ==
    \/ \E mode \in {"login", "signup"}, passwordsMatch \in BOOLEAN : SubmitLogin(mode, passwordsMatch)
    \/ \E i \in 1..MaxAuthRequests, admin \in BOOLEAN : LoginSucceeds(i, admin)
    \/ \E i \in 1..MaxAuthRequests : LoginFails(i)
    \/ HandleLogout
    \/ \E path \in AllPaths : Navigate(path)
    \/ \E path \in AllPaths : ReloadPage(path)

SpecAuth == InitAuth /\ [][NextAuth]_vars

\* ------------------------------------------------- claims: login and routing
\* C22: a protected page is routable only while isLoggedIn is true;
\* isLoggedIn becomes true only through a request that returned OK; a failed
\* request or a sign-up with mismatching passwords changes neither isLoggedIn
\* nor localStorage; logout makes isLoggedIn false and removes both flags;
\* /users is routable only while the stored isAdmin flag is 'true'.
C22_ProtectedRoutes ==
    /\ []((routes \cap (ProtectedPaths \cup {"/users"}) # {}) => isLoggedIn)
    /\ [](("/users" \in routes) => localStorage.isAdmin = "true")
    /\ [][(~isLoggedIn /\ isLoggedIn') =>
             \/ \E i \in 1..MaxAuthRequests, admin \in BOOLEAN : LoginSucceeds(i, admin)
             \/ \E path \in AllPaths : ReloadPage(path) /\ localStorage.isLoggedIn = "true"]_vars
    /\ [][((\E i \in 1..MaxAuthRequests : LoginFails(i)) \/ SubmitLogin("signup", FALSE))
             => UNCHANGED <<isLoggedIn, localStorage>>]_vars
    /\ [][HandleLogout => (~isLoggedIn' /\ localStorage' = NoFlags)]_vars

\* C26: while a user is logged in, the isAdmin of App's state, by which the
\* header shows the user-list button, equals (stored isAdmin = 'true'), by
\* which the /users route is registered.
C26_AdminButtonMatchesRoute ==
    isLoggedIn => /\ isAdmin = (localStorage.isAdmin = "true")
                  /\ isAdmin = ("/users" \in routes)

\* -------------------------------------------------------------------- user list
\* Most users the server holds.
MaxUsers == 3
\* Most DELETE requests in flight at once.
MaxDeletes == 2

\* A UserList is mounted and asks for the list.
InitUsers ==
    /\ data = EmptyNetwork
    /\ PredictInit
    /\ snapshots = <<>>
    /\ CompareInit
    /\ MetricsInit
    /\ BuildIdle
    /\ ViewIdle /\ EngineIdle /\ UploadIdle /\ DetectIdle
    /\ AuthIdle /\ PanelIdle /\ LayoutIdle /\ TimelineIdle
    /\ userList \in {"part_007", "User.tsx"}
    /\ users = {}
    /\ usersLoading = TRUE
    /\ usersError = "null"
    /\ deletingId = 0
    /\ deleteRequests = {}
    /\ serverUsers \in {1..n : n \in 0..MaxUsers}

\* fetchUsers after the fetch.
FetchUsersAnswered ==
    /\ usersLoading
    /\ \/ /\ users' = serverUsers
          /\ UNCHANGED usersError
       \/ /\ usersError' = "fetch failed"
          /\ UNCHANGED users
    /\ usersLoading' = FALSE
    /\ UNCHANGED <<userList, deletingId, deleteRequests, serverUsers, UsersFrame>>

\* handleDelete up to the fetch, the confirm dialog accepted. The row's button
\* is rendered with the list; part_007 disables it for deletingId.
HandleDelete(id) ==
    /\ ~usersLoading
    /\ id \in users
    /\ Cardinality(deleteRequests) < MaxDeletes
    /\ userList = "part_007" => deletingId # id
    /\ deletingId' = IF userList = "part_007" THEN id ELSE deletingId
    /\ deleteRequests' = deleteRequests \cup {[id |-> id, seen |-> users]}
    /\ UNCHANGED <<userList, users, usersLoading, usersError, serverUsers, UsersFrame>>

\* The list after a successful delete: part_007 filters the users its handler
\* closed over, User.tsx filters the state at the time of the update.
UsersAfterDelete(req) ==
    IF userList = "part_007" THEN req.seen \ {req.id} ELSE users \ {req.id}

\* handleDelete after the fetch: the server deleted the user.
DeleteSucceeds(req) ==
    /\ req \in deleteRequests
    /\ req.id \in serverUsers
    /\ serverUsers' = serverUsers \ {req.id}
    /\ users' = UsersAfterDelete(req)
    /\ deletingId' = 0
    /\ deleteRequests' = deleteRequests \ {req}
    /\ UNCHANGED <<userList, usersLoading, usersError, UsersFrame>>

\* handleDelete after the fetch: the response is not OK, or fetch threw.
DeleteFails(req) ==
    /\ req \in deleteRequests
    /\ usersError' = "delete failed"
    /\ deletingId' = 0
    /\ deleteRequests' = deleteRequests \ {req}
    /\ UNCHANGED <<userList, users, usersLoading, serverUsers, UsersFrame>>

NextUsers ==
    \/ FetchUsersAnswered
    \/ \E id \in 1..MaxUsers : HandleDelete(id)
    \/ \E req \in deleteRequests : DeleteSucceeds(req)
    \/ \E req \in deleteRequests : DeleteFails(req)

SpecUsers == InitUsers /\ [][NextUsers]_vars

\* ----------------------------------------------------------- claims: user list
\* C23: a user whose deletion succeeded never appears in the displayed list
\* again, whatever the order in which the responses of two deletes arrive:
\* every displayed user is one the server still holds.
C23_DeletedStayDeleted == users \subseteq serverUsers

\* ----------------------------------------------------------------- filter panel
\* The networks loaded under the filter panel: those of the view with at most
\* one edge.
PanelNetworks == {net \in ViewNetworks : Len(net.edges) <= 1}

\* The settings a load and the reset button put in place: all groups, the
\* minimum weight, no degree bounds, isolated nodes shown.
DefaultFilters(net) ==
    [showGroups |-> GroupsOf(net), minEdgeWeight |-> 1,
     maxNodeDegree |-> <<>>, minNodeDegree |-> <<>>, showIsolatedNodes |-> TRUE]

\* The network page with a network loaded and the filter panel mounted on its
\* filter options.
InitPanel ==
    /\ data = EmptyNetwork
    /\ PredictInit
    /\ snapshots = <<>>
    /\ CompareInit
    /\ MetricsInit
    /\ BuildIdle
    /\ viewData \in PanelNetworks
    /\ filters = DefaultFilters(viewData)
    /\ filteredData = FilterNetwork(viewData, filters, {})
    /\ linked = {}
    /\ placed = FALSE
    /\ advancedMetrics = NoMetrics
    /\ EngineIdle /\ UploadIdle /\ DetectIdle
    /\ AuthIdle /\ UsersIdle /\ LayoutIdle /\ TimelineIdle
    /\ panelFilters = DefaultFilters(viewData)

\* NetworkFilters.updateFilters: the panel changes one of its settings and
\* hands all of them to handleFiltersChange; the apply-filters effect follows.
UpdateFilters ==
    /\ \E f \in FilterUpdates(viewData, panelFilters) :
           /\ f # panelFilters
           /\ panelFilters' = f
           /\ filters' = f
           /\ filteredData' = FilterNetwork(viewData, f, linked)
    /\ UNCHANGED <<viewData, PanelFrame>>

\* The reset button: setFilters on the panel's own state, onChange not called.
ResetFilters ==
    /\ panelFilters' = DefaultFilters(viewData)
    /\ panelFilters' # panelFilters
    /\ UNCHANGED <<viewData, filters, filteredData, PanelFrame>>

\* A network is loaded: the page sets its filters to the defaults of the new
\* network, and the panel's effect on its groups prop replaces showGroups and
\* keeps the panel's other settings.
LoadNetwork(net) ==
    /\ net # viewData
    /\ viewData' = net
    /\ filters' = DefaultFilters(net)
    /\ filteredData' = FilterNetwork(net, filters', linked)
    /\ panelFilters' = [panelFilters EXCEPT !.showGroups = GroupsOf(net)]
    /\ UNCHANGED PanelFrame

NextPanel ==
    \/ UpdateFilters
    \/ ResetFilters
    \/ \E net \in PanelNetworks : LoadNetwork(net)

SpecPanel == InitPanel /\ [][NextPanel]_vars

\* -------------------------------------------------------- claims: filter panel
\* C24: after any sequence of filter-panel actions and data loads the settings
\* the panel displays are the settings the network page applies, and after a
\* reset the applied settings are the defaults (all groups, minimum weight, no
\* degree bounds, isolated nodes shown).
C24_PanelShowsAppliedFilters ==
    /\ [](panelFilters = filters)
    /\ [][ResetFilters => filters' = DefaultFilters(viewData)]_vars

\* ------------------------------------------------------------ layout and drag
\* Most nodes of the network drawn.
MaxLayoutNodes == 3

LayoutAlgorithms == {"force", "radial", "circular"}

\* The visualization effect's layout branch on the node objects: the circular
\* layout sets fx and fy of every node to its place on the circle, the force
\* and radial branches build their simulation and write nothing on the nodes.
LayoutEffect(layout, f) ==
    IF layout = "circular" THEN [n \in DOMAIN f |-> "circle"] ELSE f

\* The network page with a network drawn under the default controls.
InitLayout ==
    /\ data = EmptyNetwork
    /\ PredictInit
    /\ snapshots = <<>>
    /\ CompareInit
    /\ MetricsInit
    /\ BuildIdle
    /\ ViewIdle /\ EngineIdle /\ UploadIdle /\ DetectIdle
    /\ AuthIdle /\ UsersIdle /\ PanelIdle /\ TimelineIdle
    /\ layoutAlgorithm = "force"
    /\ \E n \in 1..MaxLayoutNodes : fx = [i \in 1..n |-> "null"]
    /\ dragging = 0

\* handleControlsChange with another layout, and the visualization effect
\* that follows on the same node objects.
ChangeLayout(layout) ==
    /\ dragging = 0
    /\ layout # layoutAlgorithm
    /\ layoutAlgorithm' = layout
    /\ fx' = LayoutEffect(layout, fx)
    /\ UNCHANGED <<dragging, LayoutFrame>>

\* dragstarted: fx and fy are set to the node's position.
DragStarted(n) ==
    /\ dragging = 0
    /\ fx' = [fx EXCEPT ![n] = "position"]
    /\ dragging' = n
    /\ UNCHANGED <<layoutAlgorithm, LayoutFrame>>

\* dragged: fx and fy follow the pointer.
Dragged(n) ==
    /\ dragging = n
    /\ fx' = [fx EXCEPT ![n] = "pointer"]
    /\ UNCHANGED <<layoutAlgorithm, dragging, LayoutFrame>>

\* dragended: fx and fy are cleared unless the layout is circular.
DragEnded(n) ==
    /\ dragging = n
    /\ fx' = IF layoutAlgorithm # "circular" THEN [fx EXCEPT ![n] = "null"] ELSE fx
    /\ dragging' = 0
    /\ UNCHANGED <<layoutAlgorithm, LayoutFrame>>

NextLayout ==
    \/ \E layout \in LayoutAlgorithms : ChangeLayout(layout)
    \/ \E n \in DOMAIN fx : DragStarted(n)
    \/ \E n \in DOMAIN fx : Dragged(n)
    \/ \E n \in DOMAIN fx : DragEnded(n)

SpecLayout == InitLayout /\ [][NextLayout]_vars

\* ------------------------------------------------------ claims: layout and drag
\* C28: under the force and the radial layout the only node with fx and fy set
\* is the node being dragged, whatever layout changes and drags came before:
\* after a switch away from the circular layout no node stays pinned.
C28_PinnedOnlyByCircleOrDrag ==
    layoutAlgorithm # "circular" =>
        \A n \in DOMAIN fx : fx[n] # "null" => dragging = n

\* --------------------------------------------------------------------- timeline
\* Most points of the timeline.
MaxPoints == 3

\* The snapshot taken at time t.
TimelinePoint(t) == [timestamp |-> t, label |-> <<"snapshot", t>>]

\* The data prop: the points of the times 1..n in any order.
TimelineInputs ==
    UNION { { [i \in 1..n |-> TimelinePoint(order[i])]
              : order \in {f \in [1..n -> 1..n] : \A i, j \in 1..n : f[i] = f[j] => i = j} }
            : n \in 1..MaxPoints }

RECURSIVE InsertByTime(_, _)
\* p put into the chronologically sorted s, behind the points of its own time.
InsertByTime(s, p) ==
    IF s = <<>> THEN <<p>>
    ELSE IF p.timestamp < Head(s).timestamp THEN <<p>> \o s
    ELSE <<Head(s)>> \o InsertByTime(Tail(s), p)

RECURSIVE SortByTime(_)
\* [...data].sort by timestamp: a stable sort of a copy.
SortByTime(d) ==
    IF d = <<>> THEN <<>>
    ELSE InsertByTime(SortByTime(SubSeq(d, 1, Len(d) - 1)), d[Len(d)])

sortedData == SortByTime(timelineData)

\* sortedData.indexOf(d), counted from 1; 0 when d is not in it.
IndexOf(s, d) ==
    IF \E i \in 1..Len(s) : s[i] = d
    THEN CHOOSE i \in 1..Len(s) : s[i] = d /\ \A j \in 1..(i - 1) : s[j] # d
    ELSE 0

\* The points drawn with the class 'selected' and annotated with their label.
HighlightedPoints ==
    {sortedData[i] : i \in {k \in Range(selectedIndices) : k \in 1..Len(sortedData)}}

\* The labels in 'Comparing networks at X and Y'.
ComparedLabels == {timelineData[i].label : i \in Range(selectedIndices)}

\* The timeline mounted on its data, nothing selected.
InitTimeline ==
    /\ data = EmptyNetwork
    /\ PredictInit
    /\ snapshots = <<>>
    /\ CompareInit
    /\ MetricsInit
    /\ BuildIdle
    /\ ViewIdle /\ EngineIdle /\ UploadIdle /\ DetectIdle
    /\ AuthIdle /\ UsersIdle /\ PanelIdle /\ LayoutIdle
    /\ timelineData \in TimelineInputs
    /\ selectedIndices = <<>>
    /\ clickedPoint = NoPoint
    /\ reportedIndex = 0

\* A click on the i-th circle of the chart, bound to sortedData[i].
PointClicked(i) ==
    /\ clickedPoint' = sortedData[i]
    /\ reportedIndex' = IndexOf(sortedData, sortedData[i])
    /\ UNCHANGED <<timelineData, selectedIndices, TimelineFrame>>

\* The parent renders the timeline with a pair of indices selected.
SelectIndices(pair) ==
    /\ selectedIndices' = pair
    /\ selectedIndices' # selectedIndices
    /\ UNCHANGED <<timelineData, clickedPoint, reportedIndex, TimelineFrame>>

NextTimeline ==
    \/ \E i \in 1..Len(timelineData) : PointClicked(i)
    \/ \E pair \in (1..Len(timelineData)) \X (1..Len(timelineData)) : SelectIndices(pair)

SpecTimeline == InitTimeline /\ [][NextTimeline]_vars

\* ------------------------------------------------------------- claims: timeline
\* C30: whatever the order of the data, the two labels the text names as being
\* compared are the labels of the two points highlighted on the chart, and a
\* click on a point reports the index under which that point is highlighted.
C30_TextNamesHighlightedPoints ==
    /\ []((selectedIndices # <<>> /\ selectedIndices[1] # selectedIndices[2]) =>
            ComparedLabels = {p.label : p \in HighlightedPoints})
    /\ [][\A i \in 1..Len(timelineData) :
            PointClicked(i) => sortedData[reportedIndex'] = clickedPoint']_vars
====
